---- MODULE Spec2Model ----
(***************************************************************************)
(* Model of the hierarchical storage of py-modelrunner:                    *)
(*   StorageBase   (src/modelrunner/storage/base.py)   access policy       *)
(*   MemoryStorage (src/modelrunner/storage/backend/memory.py)  backend    *)
(*                                                                         *)
(* The nested dictionary `_data` of MemoryStorage is kept as a flat map    *)
(* from key paths to values: the path <<"a", "data">> is the entry         *)
(* _data["a"]["data"].  The root dictionary is the empty path and is not   *)
(* in the map's domain.  Every operation is a function from the store and  *)
(* its arguments to a result record holding the store afterwards (d), the  *)
(* exception raised ("" for none) and the value returned.                  *)
(***************************************************************************)
EXTENDS Integers, Sequences, FiniteSets, TLC

VARIABLES mode, data, last, hist, touched, nops, step, call, held

vars == <<mode, data, last, hist, touched, nops, step, call, held>>

----------------------------------------------------------------------------
(* Bounds of the model *)

\* longest location (number of segments) an operation is called with
MaxDepth == 3
\* most entries appended to one dynamic array
MaxLen == 2
\* most operations called on one handle
MaxOps == 2
\* most operations called on one handle when only dynamic arrays are exercised
MaxDynOps == 4
\* most operations called on one handle when operations run step by step
MaxStepOps == 2
\* most operations called on one handle when only attributes are exercised
MaxAttrOps == 3
\* operations per run in the runs where the caller changes what it wrote
MaxCopyOps == 3
\* operations per run in the runs where the caller passes one attrs mapping again
MaxReuseOps == 3

----------------------------------------------------------------------------
(* Values *)

NoDType == [t |-> "", n |-> 0]
Float64 == [t |-> "float64", n |-> 0]
Int64 == [t |-> "int64", n |-> 0]
Str3 == [t |-> "str_", n |-> 3]
Str5 == [t |-> "str_", n |-> 5]
ObjectDType == [t |-> "object_", n |-> 0]

\* a numpy array / Python scalar: shape, dtype, flattened elements
NoArr == [sh |-> <<>>, dt |-> NoDType, el |-> <<>>]
MkArr(sh, dt, el) == [sh |-> sh, dt |-> dt, el |-> el]

\* one value of the nested dictionary; k is its Python type, mem says whose
\* memory holds it: the store's own ("store") or the caller's object ("caller")
Blank ==
  [k |-> "dict", s |-> "", sh |-> <<>>, dt |-> NoDType, el |-> <<>>, items |-> <<>>,
   mem |-> "store"]
DictV == Blank
NdarrayV(a) == [Blank EXCEPT !.k = "ndarray", !.sh = a.sh, !.dt = a.dt, !.el = a.el]
ListV(items) == [Blank EXCEPT !.k = "list", !.items = items]
TupleV(sh) == [Blank EXCEPT !.k = "tuple", !.sh = sh]
DTypeV(dt) == [Blank EXCEPT !.k = "dtype", !.dt = dt]
BoolV == [Blank EXCEPT !.k = "bool"]
ObjV(o) == [Blank EXCEPT !.k = "obj", !.el = <<o>>]
StrV(s) == [Blank EXCEPT !.k = "str", !.s = s]
EncV(s) == [Blank EXCEPT !.k = "enc", !.s = s]

EmptyMap == [x \in {} |-> Blank]
EmptyAttrs == [x \in {} |-> ""]

----------------------------------------------------------------------------
(* Paths *)

Front(p) == SubSeq(p, 1, Len(p) - 1)
Last(p) == p[Len(p)]
IsPrefix(p, q) == Len(p) <= Len(q) /\ SubSeq(q, 1, Len(p)) = p
Prefixes(p) == {SubSeq(p, 1, i) : i \in 0..Len(p)}

\* keys starting with a double underscore
StartsWithDunder(name) == name \in {"__attrs__", "__type__", "__class__", "__codec__"}

\* the value at path p is a dict (the root always is)
IsDict(d, p) == p = <<>> \/ (p \in DOMAIN d /\ d[p].k = "dict")
\* `name in value` for the dict at path p
HasKey(d, p, name) == Append(p, name) \in DOMAIN d
\* the keys of the dict at path p
DictKeys(d, p) == {Last(q) : q \in {r \in DOMAIN d : Len(r) = Len(p) + 1 /\ IsPrefix(p, r)}}

\* parent[name] = v, where v is a leaf or an empty dict: the old subtree goes
SetItem(d, p, v) ==
  [q \in {r \in DOMAIN d : ~IsPrefix(p, r)} \cup {p} |-> IF q = p THEN v ELSE d[q]]

----------------------------------------------------------------------------
(* Results of operations *)

Res(d, exc) ==
  [d |-> d, exc |-> exc, rb |-> FALSE, rk |-> {}, rv |-> Blank, ra |-> NoArr,
   rattrs |-> EmptyAttrs]
Ok(d) == Res(d, "")
OkBool(d, b) == [Ok(d) EXCEPT !.rb = b]
OkKeys(d, ks) == [Ok(d) EXCEPT !.rk = ks]
OkVal(d, v) == [Ok(d) EXCEPT !.rv = v]
OkArr(d, a) == [Ok(d) EXCEPT !.ra = a]
OkAttrs(d, m) == [Ok(d) EXCEPT !.rattrs = m]

\* the exception of `value[key]` / `key in value` for a string key and a value
\* that is no dict: numpy arrays raise IndexError, the other payloads TypeError
\* (a dtype raises KeyError, which _get_parent turns into TypeError)
SubscriptExc(k) == IF k = "ndarray" THEN "IndexError" ELSE "TypeError"

----------------------------------------------------------------------------
(* MemoryStorage: the backend primitives.  An operator named ...Of, ...In or *)
(* ...After is the rest of a method after the call whose result r it takes.  *)

\* the loop of _get_parent over loc[:-1]: a missing key of a dict is created
RECURSIVE Walk(_, _, _)
Walk(d, loc, i) ==
  IF i > Len(loc) - 1 THEN Ok(d)
  ELSE IF IsDict(d, SubSeq(loc, 1, i - 1))
       THEN IF SubSeq(loc, 1, i) \in DOMAIN d
            THEN Walk(d, loc, i + 1)
            ELSE Walk(SetItem(d, SubSeq(loc, 1, i), DictV), loc, i + 1)
       ELSE Res(d, SubscriptExc(d[SubSeq(loc, 1, i - 1)].k))

\* _get_parent after its loop
GetParentAfter(w, m, loc, check_write) ==
  IF w.exc # "" THEN w
  ELSE IF ~IsDict(w.d, Front(loc)) THEN Res(w.d, "TypeError")
  ELSE IF loc = <<>> THEN Res(w.d, "KeyError")
  ELSE IF check_write /\ ~m.overwrite /\ HasKey(w.d, Front(loc), Last(loc))
       THEN Res(w.d, "AccessError")
  ELSE Ok(w.d)

\* _get_parent(loc, check_write): the parent is the path Front(loc)
GetParent(d, m, loc, check_write) ==
  GetParentAfter(Walk(d, loc, 1), m, loc, check_write)

\* parent[name] of __getitem__
GetItemIn(r, loc) ==
  IF r.exc # "" THEN r
  ELSE IF ~HasKey(r.d, Front(loc), Last(loc)) THEN Res(r.d, "KeyError")
  ELSE Ok(r.d)

\* __getitem__(loc): the item is the value at path loc of the store returned
GetItem(d, m, loc) ==
  IF loc = <<>> THEN Ok(d) ELSE GetItemIn(GetParent(d, m, loc, FALSE), loc)

KeysOf(r, loc) ==
  IF r.exc # "" THEN r
  ELSE IF ~IsDict(r.d, loc) THEN Res(r.d, "AttributeError")
  ELSE OkKeys(r.d, {k \in DictKeys(r.d, loc) : ~StartsWithDunder(k)})

\* keys(loc)
Keys(d, m, loc) == KeysOf(GetItem(d, m, loc), loc)

AttrsPath(loc) == Append(loc, "__attrs__")
\* item.get("__attrs__", {}) of the dict at loc, as a map from names to values
RawAttrs(d, loc) ==
  [name \in DictKeys(d, AttrsPath(loc)) |-> d[Append(AttrsPath(loc), name)]]

IsGroupOf(r, loc) ==
  IF r.exc # "" THEN r
  ELSE IF IsDict(r.d, loc)
       THEN OkBool(r.d, "__type__" \notin DOMAIN RawAttrs(r.d, loc))
       ELSE OkBool(r.d, FALSE)

\* is_group(loc)
IsGroup(d, m, loc) == IsGroupOf(GetItem(d, m, loc), loc)

CreateGroupIn(r, loc) == IF r.exc # "" THEN r ELSE Ok(SetItem(r.d, loc, DictV))

\* _create_group(loc)
BackendCreateGroup(d, m, loc) == CreateGroupIn(GetParent(d, m, loc, TRUE), loc)

ReadAttrsOf(r, loc) ==
  IF r.exc # "" THEN r
  ELSE IF ~IsDict(r.d, loc) THEN Res(r.d, "AttributeError")
  ELSE IF HasKey(r.d, loc, "__attrs__") /\ ~IsDict(r.d, AttrsPath(loc))
       THEN Res(r.d, "RuntimeError")
  ELSE Ok(r.d)

\* _read_attrs(loc): the exception; the raw attributes are RawAttrs(r.d, loc)
BackendReadAttrs(d, m, loc) == ReadAttrsOf(GetItem(d, m, loc), loc)

\* faulty variant: the attribute replaces the attributes stored before
WriteAttrReplacing(r, loc, name, value) ==
  IF r.exc # "" THEN r
  ELSE IF ~IsDict(r.d, loc) THEN Res(r.d, SubscriptExc(r.d[loc].k))
  ELSE Ok(SetItem(SetItem(r.d, AttrsPath(loc), DictV),
                  Append(AttrsPath(loc), name), value))

WriteAttrTo(r, loc, name, value) ==
  IF r.exc # "" THEN r
  ELSE IF ~IsDict(r.d, loc) THEN Res(r.d, SubscriptExc(r.d[loc].k))
  ELSE IF ~HasKey(r.d, loc, "__attrs__")
       THEN Ok(SetItem(SetItem(r.d, AttrsPath(loc), DictV),
                       Append(AttrsPath(loc), name), value))
  ELSE IF ~IsDict(r.d, AttrsPath(loc)) THEN Res(r.d, "TypeError")
  ELSE Ok(SetItem(r.d, Append(AttrsPath(loc), name), value))

\* _write_attr(loc, name, value)
BackendWriteAttr(d, m, loc, name, value) ==
  WriteAttrTo(GetItem(d, m, loc), loc, name, value)

\* faulty variant of np.copy: the caller's array itself
NoCopy(arr) == [NdarrayV(arr) EXCEPT !.mem = "caller"]

\* np.copy(arr): a new array in memory of its own
NpCopy(arr) == NdarrayV(arr)

WriteArrayIn(r, loc, arr) ==
  IF r.exc # "" THEN r
  ELSE Ok(SetItem(SetItem(r.d, loc, DictV), Append(loc, "data"), NpCopy(arr)))

\* _write_array(loc, arr)
BackendWriteArray(d, m, loc, arr) ==
  WriteArrayIn(GetParent(d, m, loc, TRUE), loc, arr)

\* the dict of a new dynamic array
DynamicArrayItem(d, loc, shape, dtype) ==
  SetItem(SetItem(SetItem(SetItem(d, loc, DictV),
                          Append(loc, "data"), ListV(<<>>)),
                  Append(loc, "shape"), TupleV(shape)),
          Append(loc, "dtype"), DTypeV(dtype))

\* faulty variant: an item that exists is replaced
CreateDynamicArrayOver(r, loc, shape, dtype, record_array) ==
  IF r.exc # "" THEN r
  ELSE IF record_array
       THEN Ok(SetItem(DynamicArrayItem(r.d, loc, shape, dtype),
                       Append(loc, "record_array"), BoolV))
  ELSE Ok(DynamicArrayItem(r.d, loc, shape, dtype))

CreateDynamicArrayIn(r, loc, shape, dtype, record_array) ==
  IF r.exc # "" THEN r
  ELSE IF HasKey(r.d, Front(loc), Last(loc)) THEN Res(r.d, "RuntimeError")
  ELSE IF record_array
       THEN Ok(SetItem(DynamicArrayItem(r.d, loc, shape, dtype),
                       Append(loc, "record_array"), BoolV))
  ELSE Ok(DynamicArrayItem(r.d, loc, shape, dtype))

\* _create_dynamic_array(loc, shape, dtype, record_array)
BackendCreateDynamicArray(d, m, loc, shape, dtype, record_array) ==
  CreateDynamicArrayIn(GetParent(d, m, loc, TRUE), loc, shape, dtype, record_array)

\* np.issubdtype(a, b) for two concrete dtypes: the scalar types are compared,
\* not the dtypes (all string dtypes have the scalar type str_)
IsSubDType(a, b) == a.t = b.t

\* data.item(): the Python scalar of a 0-d array
PyItem(a) ==
  MkArr(<<>>,
        [t |-> (IF a.dt.t = "float64" THEN "pyfloat"
                ELSE IF a.dt.t = "int64" THEN "pyint"
                ELSE IF a.dt.t = "str_" THEN "pystr" ELSE "pyobject"),
         n |-> a.dt.n],
        a.el)

\* faulty variant of the append: the entry is put in front
PrependEntry(items, arr) == <<IF Len(arr.sh) = 0 THEN PyItem(arr) ELSE arr>> \o items

\* item["data"].append(...)
AppendEntry(items, arr) == Append(items, IF Len(arr.sh) = 0 THEN PyItem(arr) ELSE arr)

ExtendDynamicArrayOf(r, loc, arr) ==
  IF r.exc # "" THEN r
  ELSE IF ~IsDict(r.d, loc) THEN Res(r.d, SubscriptExc(r.d[loc].k))
  ELSE IF ~HasKey(r.d, loc, "shape") THEN Res(r.d, "KeyError")
  ELSE IF r.d[Append(loc, "shape")] # TupleV(arr.sh) THEN Res(r.d, "TypeError")
  ELSE IF ~HasKey(r.d, loc, "dtype") THEN Res(r.d, "KeyError")
  ELSE IF ~IsSubDType(arr.dt, r.d[Append(loc, "dtype")].dt) THEN Res(r.d, "TypeError")
  ELSE IF ~HasKey(r.d, loc, "data") THEN Res(r.d, "KeyError")
  ELSE IF r.d[Append(loc, "data")].k # "list" THEN Res(r.d, "AttributeError")
  ELSE Ok(SetItem(r.d, Append(loc, "data"),
                  ListV(AppendEntry(r.d[Append(loc, "data")].items, arr))))

\* _extend_dynamic_array(loc, arr)
BackendExtendDynamicArray(d, m, loc, arr) ==
  ExtendDynamicArrayOf(GetItem(d, m, loc), loc, arr)

\* copy.deepcopy(obj): a new object in memory of its own
DeepCopy(obj) == ObjV(obj)

WriteObjectIn(r, loc, obj) ==
  IF r.exc # "" THEN r
  ELSE Ok(SetItem(SetItem(r.d, loc, DictV), Append(loc, "data"), DeepCopy(obj)))

\* _write_object(loc, obj)
BackendWriteObject(d, m, loc, obj) ==
  WriteObjectIn(GetParent(d, m, loc, TRUE), loc, obj)

\* index=None of _read_array
NoIndex == -1

RECURSIVE Product(_)
Product(sh) == IF sh = <<>> THEN 1 ELSE sh[1] * Product(Tail(sh))

\* value[index] for an integer index >= 0
IndexInto(d, v, index) ==
  IF v.k = "ndarray"
  THEN IF v.sh = <<>> \/ index >= v.sh[1] THEN Res(d, "IndexError")
       ELSE OkVal(d, NdarrayV(MkArr(Tail(v.sh), v.dt,
                                    SubSeq(v.el, index * Product(Tail(v.sh)) + 1,
                                           (index + 1) * Product(Tail(v.sh))))))
  ELSE IF v.k = "list"
  THEN IF index >= Len(v.items) THEN Res(d, "IndexError")
       ELSE OkVal(d, NdarrayV(v.items[index + 1]))
  ELSE IF v.k = "dict" THEN Res(d, "KeyError")
  ELSE Res(d, "TypeError")

ReadArrayOf(r, loc, index) ==
  IF r.exc # "" THEN r
  ELSE IF ~IsDict(r.d, loc) THEN Res(r.d, SubscriptExc(r.d[loc].k))
  ELSE IF ~HasKey(r.d, loc, "data") THEN Res(r.d, "KeyError")
  ELSE IF index = NoIndex THEN OkVal(r.d, r.d[Append(loc, "data")])
  ELSE IndexInto(r.d, r.d[Append(loc, "data")], index)

\* _read_array(loc, index): the raw value stored under "data"
BackendReadArray(d, m, loc, index) == ReadArrayOf(GetItem(d, m, loc), loc, index)

ReadObjectOf(r, loc) ==
  IF r.exc # "" THEN r
  ELSE IF ~IsDict(r.d, loc) THEN Res(r.d, SubscriptExc(r.d[loc].k))
  ELSE IF ~HasKey(r.d, loc, "data") THEN Res(r.d, "KeyError")
  ELSE OkVal(r.d, r.d[Append(loc, "data")])

\* _read_object(loc): the stored payload itself
BackendReadObject(d, m, loc) == ReadObjectOf(GetItem(d, m, loc), loc)

\* clear()
Clear(d) == Ok(EmptyMap)

----------------------------------------------------------------------------
(* numpy conversions used by StorageBase.read_array *)

\* the dtype numpy gives a Python scalar
NpDType(dt) ==
  IF dt.t = "pyfloat" THEN Float64
  ELSE IF dt.t = "pyint" THEN Int64
  ELSE IF dt.t = "pystr" THEN [t |-> "str_", n |-> dt.n]
  ELSE IF dt.t = "pyobject" THEN ObjectDType
  ELSE dt

RECURSIVE ConcatEl(_)
ConcatEl(items) == IF items = <<>> THEN <<>> ELSE items[1].el \o ConcatEl(Tail(items))

RECURSIVE MaxN(_)
MaxN(items) ==
  IF items = <<>> THEN 0
  ELSE IF items[1].dt.n > MaxN(Tail(items)) THEN items[1].dt.n ELSE MaxN(Tail(items))

\* faulty variant of np.array: the result is flattened
ToArrayRavel(v) == MkArr(<<Product(v.sh)>>, NpDType(v.dt), v.el)

\* np.array(x, copy=True)
ToArray(v) ==
  IF v.k = "ndarray" THEN MkArr(v.sh, NpDType(v.dt), v.el)
  ELSE IF v.k = "list"
  THEN IF v.items = <<>> THEN MkArr(<<0>>, Float64, <<>>)
       ELSE MkArr(<<Len(v.items)>> \o v.items[1].sh,
                  [t |-> NpDType(v.items[1].dt).t, n |-> MaxN(v.items)],
                  ConcatEl(v.items))
  ELSE MkArr(<<>>, ObjectDType, v.el)

----------------------------------------------------------------------------
(* Attribute codec and class tags *)

\* encode_attr(value): the encoded form of a user attribute value
EncodeAttr(value) == EncV(value)
\* decode_attrs: the inverse on one value
DecodeAttr(v) == v.s
\* cls=None
NoCls == ""
\* encode_class(cls): a class is named by its module and qualified name
EncodeClass(cls) == IF cls = NoCls THEN "None" ELSE cls

\* an `attrs` argument: None, or a mapping from names to values
NoneAttrs == [none |-> TRUE, kv |-> EmptyAttrs]
DictAttrs(kv) == [none |-> FALSE, kv |-> kv]
\* attrs.setdefault(name, value)
SetDefault(kv, name, value) ==
  IF name \in DOMAIN kv THEN kv
  ELSE [k \in DOMAIN kv \cup {name} |-> IF k = name THEN value ELSE kv[k]]

----------------------------------------------------------------------------
(* StorageBase: the access policy *)

ContainsIn(r, loc) ==
  IF r.exc = "KeyError" THEN OkBool(r.d, FALSE)
  ELSE IF r.exc # "" THEN Res(r.d, r.exc)
  ELSE OkBool(r.d, Last(loc) \in r.rk)

\* __contains__(loc)
Contains(d, m, loc) ==
  IF loc = <<>> THEN OkBool(d, TRUE) ELSE ContainsIn(Keys(d, m, Front(loc)), loc)

\* the value write_attrs stores for an attribute
AttrValue(name, value) ==
  IF StartsWithDunder(name) THEN StrV(value) ELSE EncodeAttr(value)

PickName(names) == CHOOSE n \in names : TRUE

\* the loop of write_attrs over attrs.items()
RECURSIVE WriteAttrItems(_, _, _, _, _)
RECURSIVE WriteAttrRest(_, _, _, _, _)
WriteAttrRest(r, m, loc, kv, names) ==
  IF r.exc # "" THEN r ELSE WriteAttrItems(r.d, m, loc, kv, names)

WriteAttrItems(d, m, loc, kv, names) ==
  IF names = {} THEN Ok(d)
  ELSE WriteAttrRest(BackendWriteAttr(d, m, loc, PickName(names),
                                      AttrValue(PickName(names), kv[PickName(names)])),
                     m, loc, kv, names \ {PickName(names)})

\* faulty variant of write_attrs: the capability is checked after the test
\* for an empty argument
WriteAttrsEmptyFirst(d, m, loc, attrs) ==
  IF attrs.none \/ DOMAIN attrs.kv = {} THEN Ok(d)
  ELSE IF ~m.set_attrs THEN Res(d, "AccessError")
  ELSE WriteAttrItems(d, m, loc, attrs.kv, DOMAIN attrs.kv)

\* write_attrs(loc, attrs)
WriteAttrs(d, m, loc, attrs) ==
  IF ~m.set_attrs THEN Res(d, "AccessError")
  ELSE IF attrs.none \/ DOMAIN attrs.kv = {} THEN Ok(d)
  ELSE WriteAttrItems(d, m, loc, attrs.kv, DOMAIN attrs.kv)

\* attrs after `if attrs is None: attrs = {}`
AttrsOrEmpty(attrs) == IF attrs.none THEN EmptyAttrs ELSE attrs.kv
WithType(kv, item_type) ==
  IF item_type # "" THEN SetDefault(kv, "__type__", item_type) ELSE kv
WithClass(kv, cls) ==
  IF cls # NoCls THEN SetDefault(kv, "__class__", EncodeClass(cls)) ELSE kv

\* the keys of that mapping in the order of attrs.items(): the caller's keys,
\* then the keys setdefault added
RECURSIVE NamesInOrder(_)
NamesInOrder(names) ==
  IF names = {} THEN <<>>
  ELSE <<PickName(names)>> \o NamesInOrder(names \ {PickName(names)})

ItemAttrNames(attrs, item_type, cls) ==
  LET given == AttrsOrEmpty(attrs)
      user == NamesInOrder(DOMAIN given)
      typed == IF item_type # "" /\ "__type__" \notin DOMAIN given
               THEN <<"__type__">> ELSE <<>>
      classed == IF cls # NoCls /\ "__class__" \notin DOMAIN given
                 THEN <<"__class__">> ELSE <<>>
  IN user \o typed \o classed

\* the mapping _write_item_attrs hands to write_attrs; item_type "" is None
ItemAttrs(attrs, item_type, cls) ==
  DictAttrs(WithClass(WithType(AttrsOrEmpty(attrs), item_type), cls))

\* _write_item_attrs(loc, attrs, item_type, cls)
WriteItemAttrs(d, m, loc, attrs, item_type, cls) ==
  WriteAttrs(d, m, loc, ItemAttrs(attrs, item_type, cls))

\* the same after a call with result r, which fails if that call did
WriteItemAttrsAfter(r, m, loc, attrs, item_type, cls) ==
  IF r.exc # "" THEN r ELSE WriteItemAttrs(r.d, m, loc, attrs, item_type, cls)

\* the mapping the caller passed as attrs, after the operation: the
\* setdefault calls of _write_item_attrs act on the caller's own dict; r is
\* the result of the statements before _write_item_attrs
CallerAttrsAfter(r, attrs, item_type, cls) ==
  IF r.exc # "" \/ attrs.none THEN attrs ELSE ItemAttrs(attrs, item_type, cls)

\* the loop of create_group that creates the missing groups along loc
RECURSIVE CreateParents(_, _, _, _)
RECURSIVE CreateParentsNext(_, _, _, _)
RECURSIVE CreateParentsStep(_, _, _, _)
CreateParentsNext(g, m, loc, i) ==
  IF g.exc # "" THEN g ELSE CreateParents(g.d, m, loc, i + 1)

CreateParentsStep(c, m, loc, i) ==
  IF c.exc # "" THEN c
  ELSE IF c.rb THEN CreateParents(c.d, m, loc, i + 1)
  ELSE CreateParentsNext(BackendCreateGroup(c.d, m, SubSeq(loc, 1, i)), m, loc, i)

CreateParents(d, m, loc, i) ==
  IF i > Len(loc) THEN Ok(d)
  ELSE CreateParentsStep(Contains(d, m, SubSeq(loc, 1, i)), m, loc, i)

\* faulty variant: a group that exists is created anew
CreateGroupAnew(c, m, loc) ==
  IF c.exc # "" THEN c
  ELSE IF c.rb
  THEN IF m.overwrite THEN BackendCreateGroup(c.d, m, loc) ELSE Res(c.d, "AccessError")
  ELSE IF ~m.insert THEN Res(c.d, "AccessError")
  ELSE CreateParents(c.d, m, loc, 1)

\* create_group up to the call of _write_item_attrs; c is `loc in self`
CreateGroupBefore(c, m, loc) ==
  IF c.exc # "" THEN c
  ELSE IF c.rb
  THEN IF m.overwrite THEN Ok(c.d) ELSE Res(c.d, "AccessError")
  ELSE IF ~m.insert THEN Res(c.d, "AccessError")
  ELSE CreateParents(c.d, m, loc, 1)

CreateGroupOf(c, m, loc, attrs, cls) ==
  WriteItemAttrsAfter(CreateGroupBefore(c, m, loc), m, loc, attrs, "", cls)

\* create_group(loc, attrs, cls)
CreateGroup(d, m, loc, attrs, cls) ==
  CreateGroupOf(Contains(d, m, loc), m, loc, attrs, cls)

EnsureGroupOf(c, m, loc) ==
  IF c.exc # "" THEN c
  ELSE IF c.rb THEN Ok(c.d)
  ELSE IF ~m.insert THEN Res(c.d, "AccessError")
  ELSE CreateGroup(c.d, m, loc, NoneAttrs, NoCls)

\* faulty variant of ensure_group: the capability is checked before the
\* membership test
EnsureGroupInsertFirst(d, m, loc) ==
  IF ~m.insert THEN Res(d, "AccessError")
  ELSE EnsureGroupOf(Contains(d, m, loc), m, loc)

\* ensure_group(loc)
EnsureGroup(d, m, loc) == EnsureGroupOf(Contains(d, m, loc), m, loc)

\* faulty variant: the internal keys are not filtered out
UserAttrsUnfiltered(raw) == [k \in DOMAIN raw |-> DecodeAttr(raw[k])]

\* the attributes read_attrs returns: no internal keys, values decoded
UserAttrsOf(raw) ==
  [k \in {n \in DOMAIN raw : ~StartsWithDunder(n)} |-> DecodeAttr(raw[k])]

ReadAttrsAfter(r, loc) ==
  IF r.exc # "" THEN r ELSE OkAttrs(r.d, UserAttrsOf(RawAttrs(r.d, loc)))

\* read_attrs(loc)
ReadAttrs(d, m, loc) ==
  IF ~m.read THEN Res(d, "AccessError")
  ELSE ReadAttrsAfter(BackendReadAttrs(d, m, loc), loc)

CheckWriteAccessOf(c, m, loc) ==
  IF c.exc # "" THEN c
  ELSE IF c.rb
  THEN IF ~m.overwrite THEN Res(c.d, "AccessError") ELSE Ok(c.d)
  ELSE IF ~m.insert THEN Res(c.d, "AccessError")
  ELSE EnsureGroup(c.d, m, Front(loc))

\* _check_write_access(loc); can_update is True for this backend
CheckWriteAccess(d, m, loc) ==
  IF loc = <<>> THEN Res(d, "RuntimeError")
  ELSE CheckWriteAccessOf(Contains(d, m, loc), m, loc)

ReadArrayAfter(r) == IF r.exc # "" THEN r ELSE OkArr(r.d, ToArray(r.rv))

\* faulty variant of read_array: the capability is not checked
ReadArrayUnchecked(d, m, loc, index) ==
  ReadArrayAfter(BackendReadArray(d, m, loc, index))

\* read_array(loc, index) with the default copy=True and no `out`
ReadArray(d, m, loc, index) ==
  IF ~m.read THEN Res(d, "AccessError")
  ELSE ReadArrayAfter(BackendReadArray(d, m, loc, index))

WriteArrayAfter(a, m, loc, arr) ==
  IF a.exc # "" THEN a ELSE BackendWriteArray(a.d, m, loc, arr)

\* write_array(loc, arr, attrs, cls)
WriteArray(d, m, loc, arr, attrs, cls) ==
  WriteItemAttrsAfter(WriteArrayAfter(CheckWriteAccess(d, m, loc), m, loc, arr),
                      m, loc, attrs, "array", cls)

CreateDynamicArrayAfter(a, m, loc, shape, dtype, record_array) ==
  IF a.exc # "" THEN a
  ELSE BackendCreateDynamicArray(a.d, m, loc, shape, dtype, record_array)

\* create_dynamic_array(loc, shape, dtype, record_array, attrs, cls)
CreateDynamicArray(d, m, loc, shape, dtype, record_array, attrs, cls) ==
  WriteItemAttrsAfter(
    CreateDynamicArrayAfter(CheckWriteAccess(d, m, loc), m, loc, shape, dtype,
                            record_array),
    m, loc, attrs, "dynamic_array", cls)

\* self._read_attrs(loc).get("__type__") == item_type
TypeTagIs(d, loc, item_type) ==
  /\ "__type__" \in DOMAIN RawAttrs(d, loc)
  /\ RawAttrs(d, loc)["__type__"] = StrV(item_type)

\* faulty variant: an item of another kind is reported as an access error
ExtendDynamicArrayDenying(r, m, loc, arr) ==
  IF r.exc # "" THEN r
  ELSE IF ~TypeTagIs(r.d, loc, "dynamic_array") THEN Res(r.d, "AccessError")
  ELSE BackendExtendDynamicArray(r.d, m, loc, arr)

ExtendDynamicArrayAfter(r, m, loc, arr) ==
  IF r.exc # "" THEN r
  ELSE IF ~TypeTagIs(r.d, loc, "dynamic_array") THEN Res(r.d, "RuntimeError")
  ELSE BackendExtendDynamicArray(r.d, m, loc, arr)

\* faulty variant of extend_dynamic_array: the capability is not checked
ExtendDynamicArrayUnchecked(d, m, loc, arr) ==
  ExtendDynamicArrayAfter(BackendReadAttrs(d, m, loc), m, loc, arr)

\* extend_dynamic_array(loc, arr)
ExtendDynamicArray(d, m, loc, arr) ==
  IF ~m.dynamic_append THEN Res(d, "AccessError")
  ELSE ExtendDynamicArrayAfter(BackendReadAttrs(d, m, loc), m, loc, arr)

ReadObjectAfter(r, m, loc) ==
  IF r.exc # "" THEN r
  ELSE IF ~TypeTagIs(r.d, loc, "object") THEN Res(r.d, "RuntimeError")
  ELSE BackendReadObject(r.d, m, loc)

\* faulty variant of read_object: the kind is tested before the capability
ReadObjectKindFirst(d, m, loc) ==
  IF ReadObjectAfter(BackendReadAttrs(d, m, loc), m, loc).exc = "RuntimeError"
  THEN ReadObjectAfter(BackendReadAttrs(d, m, loc), m, loc)
  ELSE IF ~m.read THEN Res(d, "AccessError")
  ELSE ReadObjectAfter(BackendReadAttrs(d, m, loc), m, loc)

\* read_object(loc)
ReadObject(d, m, loc) ==
  IF ~m.read THEN Res(d, "AccessError")
  ELSE ReadObjectAfter(BackendReadAttrs(d, m, loc), m, loc)

WriteObjectAfter(a, m, loc, obj) ==
  IF a.exc # "" THEN a ELSE BackendWriteObject(a.d, m, loc, obj)

\* write_object(loc, obj, attrs, cls)
WriteObject(d, m, loc, obj, attrs, cls) ==
  WriteItemAttrsAfter(WriteObjectAfter(CheckWriteAccess(d, m, loc), m, loc, obj),
                      m, loc, attrs, "object", cls)

----------------------------------------------------------------------------
(* Inputs of the operations *)

Names == {"a", "data"}

RECURSIVE SeqsUpTo(_)
SeqsUpTo(n) ==
  IF n = 0 THEN {<<>>}
  ELSE LET shorter == SeqsUpTo(n - 1) IN
       shorter \cup {Append(p, x) : p \in {q \in shorter : Len(q) = n - 1}, x \in Names}

\* the locations operations are called with: the root, the group "a", its
\* children "a" and "data", and chains of "a" below them
Locs ==
  {p \in SeqsUpTo(MaxDepth) :
     p = <<>> \/ (p[1] = "a" /\ \A i \in 3..Len(p) : p[i] = "a")}
\* the locations of the runs that exercise dynamic arrays
DynLocs == {<<"a">>, <<"a", "data">>}

\* AccessMode: a bundle of independent capability flags
Modes ==
  [read : BOOLEAN, insert : BOOLEAN, overwrite : BOOLEAN, set_attrs : BOOLEAN,
   dynamic_append : BOOLEAN]

Scalar1 == MkArr(<<>>, Float64, <<1>>)
Vector1 == MkArr(<<2>>, Float64, <<1, 2>>)
Vector2 == MkArr(<<2>>, Float64, <<3, 4>>)
IntVector == MkArr(<<2>>, Int64, <<1, 2>>)
Text3 == MkArr(<<>>, Str3, <<7>>)
Text5 == MkArr(<<>>, Str5, <<8>>)

Matrix1 == MkArr(<<2, 2>>, Int64, <<1, 2, 3, 4>>)

\* arrays given to write_array
WriteArrays == {Scalar1, Vector1}
\* arrays of 0, 1 and 2 dimensions given to write_array in the runs that read
\* back what was written
CopyArrays == {Scalar1, Vector1, Matrix1}
\* the locations of those runs
CopyLocs == {<<"a">>, <<"a", "a">>}
\* entries given to extend_dynamic_array
Entries == {Vector1, Vector2, IntVector, Text3, Text5}
\* (shape, dtype, record_array) given to create_dynamic_array
DynSpecs ==
  {[shape |-> <<2>>, dtype |-> Float64, record_array |-> FALSE],
   [shape |-> <<>>, dtype |-> Str3, record_array |-> TRUE]}
\* objects given to write_object
Objects == {1, 2}
\* the object of a call of write_object, as the call's recorded argument
ObjArg(obj) == MkArr(<<>>, ObjectDType, <<obj>>)
\* index arguments of read_array
Indexes == {NoIndex} \cup (0..(MaxLen - 1))

UserAttrs == [k \in {"x"} |-> "v1"]
TypeAttrs == [k \in {"__type__"} |-> "object"]
\* attrs arguments of write_attrs
AttrArgs == {NoneAttrs, DictAttrs(EmptyAttrs), DictAttrs(UserAttrs), DictAttrs(TypeAttrs)}
\* attrs arguments with user keys that overlap
AttrsA == [k \in {"x", "y"} |-> "v1"]
AttrsB == [k \in {"x"} |-> "v2"]
\* attrs arguments with reserved keys
ArrayTypeAttrs == [k \in {"__type__"} |-> "array"]
ClassAttrs == [k \in {"__class__"} |-> "other.Cls"]
CodecAttrs == [k \in {"__codec__"} |-> "other.codec"]
\* attrs arguments of write_attrs in the runs that exercise attributes
MergeArgs ==
  {NoneAttrs, DictAttrs(AttrsA), DictAttrs(AttrsB), DictAttrs(TypeAttrs),
   DictAttrs(ClassAttrs), DictAttrs(CodecAttrs)}
\* (attrs, cls) arguments of write_object and create_group in those runs
ReservedItemArgs ==
  {[attrs |-> NoneAttrs, cls |-> NoCls],
   [attrs |-> DictAttrs(AttrsB), cls |-> "pkg.Cls"],
   [attrs |-> DictAttrs(ArrayTypeAttrs), cls |-> NoCls],
   [attrs |-> DictAttrs(ClassAttrs), cls |-> "pkg.Cls"]}
\* the locations of those runs
AttrLocs == {<<>>, <<"a">>, <<"a", "a">>}
\* (attrs, cls) arguments of the operations that create items
ItemArgs ==
  {[attrs |-> NoneAttrs, cls |-> NoCls], [attrs |-> DictAttrs(UserAttrs), cls |-> "pkg.Cls"]}

----------------------------------------------------------------------------
(* The state machine: one handle, one operation after the other *)

\* everything stored at and below location loc
Subtree(d, loc) == [q \in {r \in DOMAIN d : IsPrefix(loc, r)} |-> d[q]]

NoHist == [x \in {} |-> <<>>]

\* the entries appended to each dynamic array since its creation, kept for as
\* long as nothing but extend_dynamic_array changes the array
HistAfter(op, loc, arg, r) ==
  LET same == {l \in DOMAIN hist : Subtree(r.d, l) = Subtree(data, l)}
      grown == IF op = "extend_dynamic_array" /\ r.exc = "" /\ loc \in DOMAIN hist
               THEN {loc} ELSE {}
      made == IF op = "create_dynamic_array" /\ r.exc = "" THEN {loc} ELSE {}
  IN [l \in (same \cup grown \cup made) |->
        IF l \in made THEN <<>>
        ELSE IF l \in grown THEN Append(hist[l], arg)
        ELSE hist[l]]

\* the operation in progress when operations run step by step: the phases it
\* still has to run, its arguments and the attribute names still to be written
NoStep ==
  [phases |-> <<>>, op |-> "", loc |-> <<>>, arr |-> NoArr, obj |-> 0,
   shape |-> <<>>, dtype |-> NoDType, record_array |-> FALSE,
   names |-> <<>>, kv |-> EmptyAttrs]

CreateOps == {"create_group", "ensure_group", "write_array", "write_object",
              "create_dynamic_array"}

\* the call of operation op with result r, on a handle that takes `bound` calls
\* a call with result r, after which the caller's attrs mapping is h
CallHolding(bound, op, loc, arg, attrs, r, h) ==
  /\ nops < bound
  /\ nops' = nops + 1
  /\ data' = r.d
  /\ last' = [op |-> op, loc |-> loc, arg |-> arg, attrs |-> attrs, exc |-> r.exc,
              rb |-> r.rb, rk |-> r.rk, rv |-> r.rv, ra |-> r.ra, rattrs |-> r.rattrs]
  /\ hist' = HistAfter(op, loc, arg, r)
  /\ touched' = (touched \/ op \in CreateOps)
  /\ held' = h
  /\ UNCHANGED <<mode, step, call>>

CallWithin(bound, op, loc, arg, attrs, r) ==
  CallHolding(bound, op, loc, arg, attrs, r, held)

Call(op, loc, arg, attrs, r) == CallWithin(MaxOps, op, loc, arg, attrs, r)

\* a dynamic array takes at most MaxLen entries
FitsMaxLen(loc, r) ==
  IF r.exc # "" THEN TRUE ELSE Len(r.d[Append(loc, "data")].items) <= MaxLen

\* a call of extend_dynamic_array with result r
ExtendWithin(bound, loc, arr, r) ==
  /\ FitsMaxLen(loc, r)
  /\ CallWithin(bound, "extend_dynamic_array", loc, arr, NoneAttrs, r)

\* no call of a function of the package is pending
NoCall == [fn |-> "", arg |-> <<>>, out |-> <<>>, done |-> TRUE]

Init ==
  /\ mode \in Modes
  /\ data = EmptyMap
  /\ last = [op |-> "init", loc |-> <<>>, arg |-> NoArr, attrs |-> NoneAttrs,
             exc |-> "", rb |-> FALSE, rk |-> {}, rv |-> Blank, ra |-> NoArr,
             rattrs |-> EmptyAttrs]
  /\ hist = NoHist
  /\ touched = FALSE
  /\ nops = 0
  /\ step = NoStep
  /\ call = NoCall
  /\ held = NoneAttrs

DoContains ==
  \E loc \in Locs : Call("contains", loc, NoArr, NoneAttrs, Contains(data, mode, loc))

DoKeys == \E loc \in Locs : Call("keys", loc, NoArr, NoneAttrs, Keys(data, mode, loc))

DoIsGroup ==
  \E loc \in Locs : Call("is_group", loc, NoArr, NoneAttrs, IsGroup(data, mode, loc))

DoCreateGroup ==
  \E loc \in Locs, x \in ItemArgs :
    Call("create_group", loc, NoArr, x.attrs, CreateGroup(data, mode, loc, x.attrs, x.cls))

DoEnsureGroup ==
  \E loc \in Locs :
    Call("ensure_group", loc, NoArr, NoneAttrs, EnsureGroup(data, mode, loc))

DoReadAttrs ==
  \E loc \in Locs : Call("read_attrs", loc, NoArr, NoneAttrs, ReadAttrs(data, mode, loc))

DoWriteAttrs ==
  \E loc \in Locs, a \in AttrArgs :
    Call("write_attrs", loc, NoArr, a, WriteAttrs(data, mode, loc, a))

DoWriteArray ==
  \E loc \in Locs, arr \in WriteArrays, x \in ItemArgs :
    Call("write_array", loc, arr, x.attrs,
         WriteArray(data, mode, loc, arr, x.attrs, x.cls))

DoReadArray ==
  \E loc \in Locs, index \in Indexes :
    Call("read_array", loc, NoArr, NoneAttrs, ReadArray(data, mode, loc, index))

DoCreateDynamicArray ==
  \E loc \in Locs, s \in DynSpecs, x \in ItemArgs :
    Call("create_dynamic_array", loc, NoArr, x.attrs,
         CreateDynamicArray(data, mode, loc, s.shape, s.dtype, s.record_array,
                            x.attrs, x.cls))

DoExtendDynamicArray ==
  \E loc \in Locs, arr \in Entries :
    ExtendWithin(MaxOps, loc, arr, ExtendDynamicArray(data, mode, loc, arr))

DoReadObject ==
  \E loc \in Locs :
    Call("read_object", loc, NoArr, NoneAttrs, ReadObject(data, mode, loc))

DoWriteObject ==
  \E loc \in Locs, obj \in Objects, x \in ItemArgs :
    Call("write_object", loc, ObjArg(obj), x.attrs,
         WriteObject(data, mode, loc, obj, x.attrs, x.cls))

DoClear == Call("clear", <<>>, NoArr, NoneAttrs, Clear(data))

Next ==
  \/ DoContains
  \/ DoKeys
  \/ DoIsGroup
  \/ DoCreateGroup
  \/ DoEnsureGroup
  \/ DoReadAttrs
  \/ DoWriteAttrs
  \/ DoWriteArray
  \/ DoReadArray
  \/ DoCreateDynamicArray
  \/ DoExtendDynamicArray
  \/ DoReadObject
  \/ DoWriteObject
  \/ DoClear

Spec == Init /\ [][Next]_vars

(* Longer runs on a handle that exercise dynamic arrays only *)

DynCreate ==
  \E loc \in DynLocs, s \in DynSpecs :
    CallWithin(MaxDynOps, "create_dynamic_array", loc, NoArr, NoneAttrs,
               CreateDynamicArray(data, mode, loc, s.shape, s.dtype, s.record_array,
                                  NoneAttrs, NoCls))

DynExtend ==
  \E loc \in DynLocs, arr \in Entries :
    ExtendWithin(MaxDynOps, loc, arr, ExtendDynamicArray(data, mode, loc, arr))

DynRead ==
  \E loc \in DynLocs, index \in Indexes :
    CallWithin(MaxDynOps, "read_array", loc, NoArr, NoneAttrs,
               ReadArray(data, mode, loc, index))

DynWriteArray ==
  \E loc \in DynLocs, arr \in WriteArrays :
    CallWithin(MaxDynOps, "write_array", loc, arr, NoneAttrs,
               WriteArray(data, mode, loc, arr, NoneAttrs, NoCls))

NextDyn ==
  \/ DynCreate
  \/ DynExtend
  \/ DynRead
  \/ DynWriteArray

SpecDyn == Init /\ [][NextDyn]_vars

(* Longer runs on a handle that exercise attributes and objects only *)

AttrCreateGroup ==
  \E loc \in AttrLocs, x \in ReservedItemArgs :
    CallWithin(MaxAttrOps, "create_group", loc, NoArr, x.attrs,
               CreateGroup(data, mode, loc, x.attrs, x.cls))

AttrWriteObject ==
  \E loc \in AttrLocs, obj \in Objects, x \in ReservedItemArgs :
    CallWithin(MaxAttrOps, "write_object", loc, ObjArg(obj), x.attrs,
               WriteObject(data, mode, loc, obj, x.attrs, x.cls))

AttrWriteAttrs ==
  \E loc \in AttrLocs, a \in MergeArgs :
    CallWithin(MaxAttrOps, "write_attrs", loc, NoArr, a, WriteAttrs(data, mode, loc, a))

AttrReadAttrs ==
  \E loc \in AttrLocs :
    CallWithin(MaxAttrOps, "read_attrs", loc, NoArr, NoneAttrs,
               ReadAttrs(data, mode, loc))

AttrReadObject ==
  \E loc \in AttrLocs :
    CallWithin(MaxAttrOps, "read_object", loc, NoArr, NoneAttrs,
               ReadObject(data, mode, loc))

NextAttrs ==
  \/ AttrCreateGroup
  \/ AttrWriteObject
  \/ AttrWriteAttrs
  \/ AttrReadAttrs
  \/ AttrReadObject

SpecAttrs == Init /\ [][NextAttrs]_vars

(* Runs in which the caller keeps the array or object it has written and    *)
(* changes it in place afterwards                                           *)

CopyWriteArray ==
  \E loc \in CopyLocs, arr \in CopyArrays :
    CallWithin(MaxCopyOps, "write_array", loc, arr, NoneAttrs,
               WriteArray(data, mode, loc, arr, NoneAttrs, NoCls))

CopyWriteObject ==
  \E loc \in CopyLocs, obj \in Objects :
    CallWithin(MaxCopyOps, "write_object", loc, ObjArg(obj), NoneAttrs,
               WriteObject(data, mode, loc, obj, NoneAttrs, NoCls))

\* the elements after the caller's in-place change (a += 1)
ChangedEl(el) == [i \in DOMAIN el |-> el[i] + 1]

\* the nested dictionary after the caller changed its own array or object in
\* place: every value held in the caller's memory changes with it
ChangedInPlace(d) ==
  [p \in DOMAIN d |->
     IF d[p].mem = "caller" THEN [d[p] EXCEPT !.el = ChangedEl(d[p].el)] ELSE d[p]]

\* the caller changes the array or object of its last write in place
CopyMutate ==
  /\ last.op \in {"write_array", "write_object"}
  /\ CallWithin(MaxCopyOps, "mutate", last.loc,
                MkArr(last.arg.sh, last.arg.dt, ChangedEl(last.arg.el)), NoneAttrs,
                Ok(ChangedInPlace(data)))

\* the nested dictionary after the caller changed the value v that
\* read_object(loc) returned: a value in the store's own memory is the stored
\* payload itself
ChangedThrough(d, loc, v) ==
  IF v.mem = "store"
  THEN [d EXCEPT ![Append(loc, "data")] = [@ EXCEPT !.el = ChangedEl(@)]]
  ELSE d

\* the caller changes the object its last read_object returned in place
CopyMutateReturned ==
  /\ last.op = "read_object"
  /\ last.exc = ""
  /\ CallWithin(MaxCopyOps, "mutate_returned", last.loc, NoArr, NoneAttrs,
                Ok(ChangedThrough(data, last.loc, last.rv)))

CopyReadArray ==
  \E loc \in CopyLocs, index \in Indexes :
    CallWithin(MaxCopyOps, "read_array", loc, NoArr, NoneAttrs,
               ReadArray(data, mode, loc, index))

CopyReadObject ==
  \E loc \in CopyLocs :
    CallWithin(MaxCopyOps, "read_object", loc, NoArr, NoneAttrs,
               ReadObject(data, mode, loc))

NextCopy ==
  \/ CopyWriteArray
  \/ CopyWriteObject
  \/ CopyMutate
  \/ CopyMutateReturned
  \/ CopyReadArray
  \/ CopyReadObject

SpecCopy == Init /\ [][NextCopy]_vars

(* Runs in which the caller passes the same attrs mapping to every call *)

ReuseLocs == {<<"a">>, <<"data">>}
ReuseClasses == {NoCls, "pkg.Cls"}

ReuseCreateGroup ==
  \E loc \in ReuseLocs, cls \in ReuseClasses :
    CallHolding(MaxReuseOps, "create_group", loc, NoArr, held,
                CreateGroup(data, mode, loc, held, cls),
                CallerAttrsAfter(CreateGroupBefore(Contains(data, mode, loc), mode, loc),
                                 held, "", cls))

ReuseWriteArray ==
  \E loc \in ReuseLocs, cls \in ReuseClasses :
    CallHolding(MaxReuseOps, "write_array", loc, Scalar1, held,
                WriteArray(data, mode, loc, Scalar1, held, cls),
                CallerAttrsAfter(WriteArrayAfter(CheckWriteAccess(data, mode, loc),
                                                 mode, loc, Scalar1),
                                 held, "array", cls))

ReuseWriteObject ==
  \E loc \in ReuseLocs, cls \in ReuseClasses :
    CallHolding(MaxReuseOps, "write_object", loc, ObjArg(1), held,
                WriteObject(data, mode, loc, 1, held, cls),
                CallerAttrsAfter(WriteObjectAfter(CheckWriteAccess(data, mode, loc),
                                                  mode, loc, 1),
                                 held, "object", cls))

ReuseCreateDynamicArray ==
  \E loc \in ReuseLocs, cls \in ReuseClasses :
    CallHolding(MaxReuseOps, "create_dynamic_array", loc, NoArr, held,
                CreateDynamicArray(data, mode, loc, <<2>>, Float64, FALSE, held, cls),
                CallerAttrsAfter(
                  CreateDynamicArrayAfter(CheckWriteAccess(data, mode, loc), mode, loc,
                                          <<2>>, Float64, FALSE),
                  held, "dynamic_array", cls))

ReuseReadObject ==
  \E loc \in ReuseLocs :
    CallWithin(MaxReuseOps, "read_object", loc, NoArr, NoneAttrs,
               ReadObject(data, mode, loc))

InitReuse ==
  /\ mode \in Modes
  /\ data = EmptyMap
  /\ last = [op |-> "init", loc |-> <<>>, arg |-> NoArr, attrs |-> NoneAttrs,
             exc |-> "", rb |-> FALSE, rk |-> {}, rv |-> Blank, ra |-> NoArr,
             rattrs |-> EmptyAttrs]
  /\ hist = NoHist
  /\ touched = FALSE
  /\ nops = 0
  /\ step = NoStep
  /\ call = NoCall
  /\ held \in {DictAttrs(EmptyAttrs), DictAttrs(UserAttrs)}

NextReuse ==
  \/ ReuseCreateGroup
  \/ ReuseWriteArray
  \/ ReuseWriteObject
  \/ ReuseCreateDynamicArray
  \/ ReuseReadObject

SpecReuse == InitReuse /\ [][NextReuse]_vars

(* The writing operations run step by step: the access check, the payload, *)
(* then one attribute after the other; a handle may stop between two steps. *)

\* faulty order of the statements: the attributes before the payload
PhasesAttrsFirst == <<"check", "attrs", "payload">>

\* the statements of write_array, write_object and create_dynamic_array
Phases == <<"check", "payload", "attrs">>

ItemTypeOf(op) ==
  IF op = "write_array" THEN "array"
  ELSE IF op = "write_object" THEN "object"
  ELSE "dynamic_array"

\* the calls of the writing operations
StepCalls ==
  {[NoStep EXCEPT !.op = "write_array", !.arr = arr] : arr \in WriteArrays}
  \cup {[NoStep EXCEPT !.op = "write_object", !.obj = obj] : obj \in Objects}
  \cup {[NoStep EXCEPT !.op = "create_dynamic_array", !.shape = s.shape,
                       !.dtype = s.dtype, !.record_array = s.record_array] :
          s \in DynSpecs}

\* the operation in progress ends with exception exc ("" for none)
StepEnds(d, exc) ==
  /\ data' = d
  /\ step' = NoStep
  /\ last' = [op |-> step.op, loc |-> step.loc, arg |-> step.arr,
              attrs |-> DictAttrs(step.kv), exc |-> exc, rb |-> FALSE, rk |-> {},
              rv |-> Blank, ra |-> NoArr, rattrs |-> EmptyAttrs]

\* the statement with result r has run: an exception ends the operation, and
\* so does the last statement
StepDone(r) ==
  IF r.exc # "" THEN StepEnds(r.d, r.exc)
  ELSE IF Len(step.phases) = 1 THEN StepEnds(r.d, "")
  ELSE /\ data' = r.d
       /\ step' = [step EXCEPT !.phases = Tail(@)]
       /\ UNCHANGED last

StepBegin ==
  /\ step.phases = <<>>
  /\ nops < MaxStepOps
  /\ \E c \in StepCalls, loc \in Locs, x \in ItemArgs :
       step' = [c EXCEPT !.phases = Phases, !.loc = loc,
                         !.names = ItemAttrNames(x.attrs, ItemTypeOf(c.op), x.cls),
                         !.kv = ItemAttrs(x.attrs, ItemTypeOf(c.op), x.cls).kv]
  /\ nops' = nops + 1
  /\ touched' = TRUE
  /\ UNCHANGED <<mode, data, last, hist, call, held>>

StepCheck ==
  /\ step.phases # <<>>
  /\ Head(step.phases) = "check"
  /\ StepDone(CheckWriteAccess(data, mode, step.loc))
  /\ UNCHANGED <<mode, hist, touched, nops, call, held>>

\* the backend call of the operation in progress
StepPayloadResult ==
  IF step.op = "write_array" THEN BackendWriteArray(data, mode, step.loc, step.arr)
  ELSE IF step.op = "write_object"
  THEN BackendWriteObject(data, mode, step.loc, step.obj)
  ELSE BackendCreateDynamicArray(data, mode, step.loc, step.shape, step.dtype,
                                 step.record_array)

StepPayload ==
  /\ step.phases # <<>>
  /\ Head(step.phases) = "payload"
  /\ StepDone(StepPayloadResult)
  /\ UNCHANGED <<mode, hist, touched, nops, call, held>>

\* the next attribute of the loop of write_attrs
StepAttrResult ==
  BackendWriteAttr(data, mode, step.loc, Head(step.names),
                   AttrValue(Head(step.names), step.kv[Head(step.names)]))

\* write_attrs of the operation in progress: the capability, then one
\* attribute per step
StepAttr ==
  /\ step.phases # <<>>
  /\ Head(step.phases) = "attrs"
  /\ IF ~mode.set_attrs THEN StepEnds(data, "AccessError")
     ELSE IF step.names = <<>> THEN StepDone(Ok(data))
     ELSE IF StepAttrResult.exc # "" \/ Len(step.names) = 1
     THEN StepDone(StepAttrResult)
     ELSE /\ data' = StepAttrResult.d
          /\ step' = [step EXCEPT !.names = Tail(@)]
          /\ UNCHANGED last
  /\ UNCHANGED <<mode, hist, touched, nops, call, held>>

NextSteps ==
  \/ StepBegin
  \/ StepCheck
  \/ StepPayload
  \/ StepAttr

SpecSteps == Init /\ [][NextSteps]_vars

----------------------------------------------------------------------------
(* Class tags: encode_class and decode_class. A dotted name is the sequence *)
(* of its segments; a class is named by the module that defines it and its  *)
(* qualified name.                                                          *)

MkCls(module, qualname) == [module |-> module, qualname |-> qualname]
\* None, as a class and as a class path
NoneCls == MkCls(<<>>, <<>>)
NoPath == <<>>
\* the literal "None"
NonePath == <<"None">>

UtilsModule == <<"modelrunner", "storage", "utils">>
\* the modules import_module finds
Importable == {<<"pkg">>, <<"pkg", "mod">>, UtilsModule}
\* the classes among globals() of the utility module
Globals == {"Array"}
\* the names a module defines
ModuleNames(module) ==
  IF module = <<"pkg">> THEN {"Cls"}
  ELSE IF module = <<"pkg", "mod">> THEN {"Cls", "Other", "Outer"}
  ELSE IF module = UtilsModule THEN Globals
  ELSE {}

\* faulty variant of encode_class: the module path is left out
EncodeClassName(cls) == IF cls = NoneCls THEN NonePath ELSE cls.qualname

\* encode_class(cls), the dotted path as the sequence of its segments
EncodeClassPath(cls) ==
  IF cls = NoneCls THEN NonePath ELSE cls.module \o cls.qualname

ClsResult(exc, cls) == [exc |-> exc, cls |-> cls]

\* decode_class when import_module raised ModuleNotFoundError
DecodeNotFound(class_name, guess) ==
  IF guess # NoneCls
  THEN IF Last(guess.qualname) = class_name THEN ClsResult("", guess)
       ELSE IF class_name \in Globals
       THEN ClsResult("", MkCls(UtilsModule, <<class_name>>))
       ELSE ClsResult("ModuleNotFoundError", NoneCls)
  ELSE IF class_name \in Globals THEN ClsResult("", MkCls(UtilsModule, <<class_name>>))
  ELSE ClsResult("ModuleNotFoundError", NoneCls)

\* decode_class(class_path, guess)
DecodeClass(class_path, guess) ==
  IF class_path = NoPath \/ class_path = NonePath THEN ClsResult("", NoneCls)
  ELSE IF Len(class_path) < 2 THEN ClsResult("ImportError", NoneCls)
  ELSE IF Front(class_path) \notin Importable
  THEN DecodeNotFound(Last(class_path), guess)
  ELSE IF Last(class_path) \in ModuleNames(Front(class_path))
  THEN ClsResult("", MkCls(Front(class_path), <<Last(class_path)>>))
  ELSE ClsResult("ImportError", NoneCls)

----------------------------------------------------------------------------
(* Format versions: result_check_load_old_version *)

\* Python values of a version entry; x is twice the number
PyValue(t, x, s) == [t |-> t, x |-> x, s |-> s]
PyNone == PyValue("NoneType", 0, "")
PyInt(n) == PyValue("int", 2 * n, "")
PyFloat(twice) == PyValue("float", twice, "")
PyStr(s) == PyValue("str", 0, s)
PyList == PyValue("list", 0, "")

\* v == n of Python
PyEq(v, n) == v.t \in {"int", "float"} /\ v.x = 2 * n

VersionResult(exc, v) == [exc |-> exc, v |-> v]

\* json.loads(s)
JsonLoads(s) ==
  IF s = "0" THEN VersionResult("", PyInt(0))
  ELSE IF s = "1" THEN VersionResult("", PyInt(1))
  ELSE IF s = "2" THEN VersionResult("", PyInt(2))
  ELSE IF s = "1.0" THEN VersionResult("", PyFloat(2))
  ELSE IF s = "1.5" THEN VersionResult("", PyFloat(3))
  ELSE IF s = "null" THEN VersionResult("", PyNone)
  ELSE IF s = "[1]" THEN VersionResult("", PyList)
  ELSE VersionResult("JSONDecodeError", PyNone)

\* guess_format(path), by the extension of the path
GuessFormat(ext) ==
  IF ext = ".json" THEN "json"
  ELSE IF ext \in {".yml", ".yaml"} THEN "yaml"
  ELSE IF ext \in {".h5", ".hdf", ".hdf5"} THEN "hdf"
  ELSE "zarr"

\* the content of a file: a map from key paths to the version entries; the
\* attributes of a group of an hdf or zarr file are under ".attrs"
NoEntries == [p \in {} |-> PyNone]
\* `key in item` for the item at path `at`
HasKeyAt(file, at, key) == \E p \in DOMAIN file : IsPrefix(Append(at, key), p)

\* read_version(item) of _find_version; hasattrs: the item has `.attrs`
RECURSIVE ReadVersion(_, _, _)
ReadVersion(file, at, hasattrs) ==
  IF hasattrs THEN ReadVersion(file, Append(at, ".attrs"), FALSE)
  ELSE IF HasKeyAt(file, at, "__version__") THEN file[Append(at, "__version__")]
  ELSE IF HasKeyAt(file, at, "__attrs__")
  THEN ReadVersion(file, Append(at, "__attrs__"), FALSE)
  ELSE IF HasKeyAt(file, at, "attributes")
  THEN ReadVersion(file, Append(at, "attributes"), FALSE)
  ELSE PyNone

\* the places _find_version looks at, in order
VersionAtLabel(top, file, label, hasattrs) ==
  IF top = PyNone /\ HasKeyAt(file, <<>>, label)
  THEN ReadVersion(file, <<label>>, hasattrs) ELSE top
VersionAtState(v, file, hasattrs) ==
  IF v = PyNone /\ HasKeyAt(file, <<>>, "state")
  THEN ReadVersion(file, <<"state">>, hasattrs) ELSE v
DecodedVersion(v) == IF v.t = "str" THEN JsonLoads(v.s) ELSE VersionResult("", v)

\* _find_version(data, label)
FindVersion(file, label, hasattrs) ==
  DecodedVersion(VersionAtState(VersionAtLabel(ReadVersion(file, <<>>, hasattrs),
                                               file, label, hasattrs),
                                file, hasattrs))

LoadResult(exc, loader, label) == [exc |-> exc, loader |-> loader, label |-> label]

\* the dispatch of result_check_load_old_version on the version found
LoadVersion(found, label) ==
  IF found.exc # "" THEN LoadResult(found.exc, "", "")
  ELSE IF found.v.t = "list" THEN LoadResult("TypeError", "", "")
  ELSE IF found.v = PyNone \/ PyEq(found.v, 0) THEN LoadResult("", "v0", "")
  ELSE IF PyEq(found.v, 1) THEN LoadResult("", "v1", label)
  ELSE IF found.v.t # "int" THEN LoadResult("RuntimeError", "", "")
  ELSE LoadResult("", "", "")

\* loc=None
NoLabel == ""
LabelOf(loc) == IF loc = NoLabel THEN "data" ELSE loc

\* the version of a zarr file: under the label, else under "data"
ZarrVersion(first, file, label) ==
  IF first.exc = "" /\ first.v = PyNone /\ label # "data"
  THEN FindVersion(file, "data", TRUE) ELSE first
ZarrLabel(first, second, label) ==
  IF first.exc = "" /\ first.v = PyNone /\ label # "data" /\ second.exc = ""
     /\ second.v # PyNone
  THEN "data" ELSE label

\* the version the function finds in the file and the label it then uses
FoundVersion(fmt, file, label) ==
  IF fmt \in {"json", "yaml"} THEN FindVersion(file, label, FALSE)
  ELSE IF fmt = "hdf" THEN FindVersion(file, label, TRUE)
  ELSE ZarrVersion(FindVersion(file, label, TRUE), file, label)
FoundLabel(fmt, file, label) ==
  IF fmt = "zarr"
  THEN ZarrLabel(FindVersion(file, label, TRUE), FoundVersion(fmt, file, label), label)
  ELSE label

\* result_check_load_old_version(path, loc): ext is the extension of the
\* path, is_file tells whether the path is a file, file is its content
ResultCheckLoadOldVersion(ext, is_file, loc, file) ==
  IF GuessFormat(ext) = "zarr" /\ ~is_file THEN LoadResult("", "", "")
  ELSE LoadVersion(FoundVersion(GuessFormat(ext), file, LabelOf(loc)),
                   FoundLabel(GuessFormat(ext), file, LabelOf(loc)))

----------------------------------------------------------------------------
(* Models made from functions: __call__ of make_model_class *)

NoValue == "NoValue"

\* faulty variant of the resolution: the keyword argument comes first
ValueOfKeywordFirst(i, name, self, args, kwargs) ==
  IF name \in DOMAIN kwargs THEN kwargs[name]
  ELSE IF Len(args) >= i THEN args[i]
  ELSE self.parameters[name]

\* the value of the i-th parameter (counted from 1): positional, keyword, or
\* the stored value self.parameters[name]
ValueOf(i, name, self, args, kwargs) ==
  IF Len(args) >= i THEN args[i]
  ELSE IF name \in DOMAIN kwargs THEN kwargs[name]
  ELSE self.parameters[name]

CallResult(exc, calls, with) == [exc |-> exc, calls |-> calls, with |-> with]

\* the loop of __call__ from the i-th parameter on, then func(**parameters)
RECURSIVE ModelCallFrom(_, _, _, _, _)
ModelCallFrom(i, parameters, self, args, kwargs) ==
  IF i > Len(self.names) THEN CallResult("", 1, parameters)
  ELSE IF ValueOf(i, self.names[i], self, args, kwargs) = NoValue
  THEN CallResult("TypeError", 0, EmptyAttrs)
  ELSE ModelCallFrom(i + 1,
                     parameters @@
                       (self.names[i] :> ValueOf(i, self.names[i], self, args, kwargs)),
                     self, args, kwargs)

\* model(*args, **kwargs)
ModelCall(self, args, kwargs) == ModelCallFrom(1, EmptyAttrs, self, args, kwargs)

----------------------------------------------------------------------------
(* run_script: what a script's members make it run *)

RunResult(exc, kind, name) == [exc |-> exc, kind |-> kind, name |-> name]
\* dict.popitem() of a dict with a single key
Only(names) == CHOOSE n \in names : TRUE

\* faulty variant of run_script: a function called main comes before classes
RunScriptMainFirst(script) ==
  IF "main" \in script.funcs THEN RunResult("", "function", "main")
  ELSE IF Cardinality(script.instances) = 1
  THEN RunResult("", "instance", Only(script.instances))
  ELSE IF Cardinality(script.instances) > 1 THEN RunResult("RuntimeError", "", "")
  ELSE IF Cardinality(script.classes) = 1
  THEN RunResult("", "class", Only(script.classes))
  ELSE IF Cardinality(script.classes) > 1 THEN RunResult("RuntimeError", "", "")
  ELSE IF Cardinality(script.funcs) = 1
  THEN RunResult("", "function", Only(script.funcs))
  ELSE RunResult("RuntimeError", "", "")

\* run_script(script_path, model_args) for a script whose members are the
\* model instances, model classes and functions of the given names
RunScript(script) ==
  IF Cardinality(script.instances) = 1
  THEN RunResult("", "instance", Only(script.instances))
  ELSE IF Cardinality(script.instances) > 1 THEN RunResult("RuntimeError", "", "")
  ELSE IF Cardinality(script.classes) = 1
  THEN RunResult("", "class", Only(script.classes))
  ELSE IF Cardinality(script.classes) > 1 THEN RunResult("RuntimeError", "", "")
  ELSE IF Cardinality(script.funcs) = 1 \/ "main" \in script.funcs
  THEN IF "main" \in script.funcs THEN RunResult("", "function", "main")
       ELSE RunResult("", "function", Only(script.funcs))
  ELSE IF Cardinality(script.funcs) > 1 THEN RunResult("RuntimeError", "", "")
  ELSE RunResult("RuntimeError", "", "")

----------------------------------------------------------------------------
(* Calls of these functions on inputs drawn from bounded sets *)

ModulePaths == {<<>>, <<"pkg">>, <<"pkg", "mod">>, <<"gone">>, <<"pkg", "gone">>}
QualNames == {<<"Cls">>, <<"Other">>, <<"Array">>, <<"None">>, <<"Outer", "Inner">>}
ClassPaths == {NoPath} \cup {m \o q : m \in ModulePaths, q \in QualNames}
Classes ==
  {MkCls(<<"pkg">>, <<"Cls">>), MkCls(<<"pkg", "mod">>, <<"Cls">>),
   MkCls(<<"pkg", "mod">>, <<"Other">>), MkCls(<<"pkg", "mod">>, <<"Outer", "Inner">>),
   MkCls(<<"gone">>, <<"Cls">>), MkCls(UtilsModule, <<"Array">>)}
DecodeArgs == [class_path : ClassPaths, guess : Classes \cup {NoneCls}]
EncodeArgs == [cls : Classes \cup {NoneCls}]

VersionPaths ==
  {<<"__version__">>, <<"__attrs__", "__version__">>, <<"attributes", "__version__">>,
   <<"result", "__version__">>, <<"data", "__attrs__", "__version__">>,
   <<"state", "__version__">>, <<".attrs", "__version__">>,
   <<"result", ".attrs", "__version__">>, <<"data", ".attrs", "__version__">>,
   <<"state", ".attrs", "__version__">>}
VersionValues ==
  {PyNone, PyInt(0), PyInt(1), PyInt(2), PyFloat(0), PyFloat(2), PyFloat(3), PyList}
    \cup {PyStr(s) : s \in {"0", "1", "2", "1.0", "1.5", "[1]", "abc"}}
Files == {NoEntries} \cup {[p \in {q} |-> v] : q \in VersionPaths, v \in VersionValues}
LoadArgs ==
  {a \in [ext : {".json", ".yaml", ".hdf5", ".zarr"}, is_file : BOOLEAN,
          loc : {NoLabel, "result"}, file : Files] :
     a.is_file \/ a.ext = ".zarr"}

ParameterNames == <<"a", "b">>
Stored == [{"a", "b"} -> {NoValue, "stored"}]
Positional == {<<>>, <<"arg1">>, <<"arg1", "arg2">>, <<NoValue>>}
Keywords ==
  {EmptyAttrs, [k \in {"a"} |-> "kw_a"], [k \in {"b"} |-> "kw_b"],
   [k \in {"a", "b"} |-> IF k = "a" THEN "kw_a" ELSE "kw_b"]}
ModelCallArgs ==
  {[self |-> [names |-> ParameterNames, parameters |-> p], args |-> a, kwargs |-> k] :
     p \in Stored, a \in Positional, k \in Keywords}

Scripts ==
  [instances : SUBSET {"m1", "m2"}, classes : SUBSET {"C1", "C2"},
   funcs : SUBSET {"main", "f", "g"}]

(* submit_jobs of job.py *)

\* a parameter value: a Python scalar v, or a list of the scalars items
Scalar(v) == [iterable |-> FALSE, v |-> v, items |-> <<>>]
Iterable(items) == [iterable |-> TRUE, v |-> PyNone, items |-> items]

\* hasattr(value, "__iter__") and not isinstance(value, str)
IsVarying(value) ==
  /\ value.iterable \/ value.v.t = "str"
  /\ value.iterable \/ value.v.t # "str"

\* the entries of the dict `parameters`, in its order, that are kept in
\* `params` (vary = FALSE) or in `p_vary` (vary = TRUE)
RECURSIVE Detect(_, _)
Detect(parameters, vary) ==
  IF parameters = <<>> THEN <<>>
  ELSE IF IsVarying(Head(parameters).value) = vary
       THEN <<Head(parameters)>> \o Detect(Tail(parameters), vary)
       ELSE Detect(Tail(parameters), vary)

\* the dict with the entries of a sequence of (name, value) pairs; a later
\* entry of the same name wins
DictOf(entries) ==
  [n \in {entries[i].name : i \in DOMAIN entries} |->
     entries[CHOOSE i \in DOMAIN entries :
               /\ entries[i].name = n
               /\ \A j \in DOMAIN entries : entries[j].name = n => j <= i].value]

\* itertools.product of the items of first with the combinations rest, the
\* rightmost factor advancing fastest; a combination is a sequence of
\* (name, value) pairs, as dict(zip(p_vary.keys(), values)) pairs them
ProductWith(first, rest) ==
  [k \in 1..(Len(first.value.items) * Len(rest)) |->
     <<[name |-> first.name,
        value |-> Scalar(first.value.items[((k - 1) \div Len(rest)) + 1])]>>
       \o rest[((k - 1) % Len(rest)) + 1]]

RECURSIVE ItertoolsProduct(_)
ItertoolsProduct(p_vary) ==
  IF p_vary = <<>> THEN << <<>> >>
  ELSE ProductWith(Head(p_vary), ItertoolsProduct(Tail(p_vary)))

\* f"{value:g}": the exception, or the text of a number
FormatG(value) ==
  IF value.iterable THEN [exc |-> "TypeError", text |-> ""]
  ELSE IF value.v.t = "NoneType" THEN [exc |-> "TypeError", text |-> ""]
  ELSE IF value.v.t = "str" THEN [exc |-> "ValueError", text |-> ""]
  ELSE IF value.v.x = 1 THEN [exc |-> "", text |-> "0.5"]
  ELSE IF value.v.x = 2 THEN [exc |-> "", text |-> "1"]
  ELSE IF value.v.x = 4 THEN [exc |-> "", text |-> "2"]
  ELSE [exc |-> "", text |-> "3"]

RECURSIVE GetJobName(_, _)
\* get_job_name(base, args): the exception, or the parts of the name (the
\* abbreviated parameter names are kept whole)
GetJobName(base, args) ==
  IF args = <<>> THEN [exc |-> "", name |-> <<base>>]
  ELSE IF GetJobName(base, Front(args)).exc # "" THEN GetJobName(base, Front(args))
  ELSE IF FormatG(Last(args).value).exc # ""
       THEN [exc |-> FormatG(Last(args).value).exc, name |-> <<>>]
  ELSE [exc |-> "",
        name |-> GetJobName(base, Front(args)).name
                   \o <<Last(args).name, FormatG(Last(args).value).text>>]

\* a.update(b) of two dicts
DictUpdate(a, b) ==
  [n \in DOMAIN a \cup DOMAIN b |-> IF n \in DOMAIN b THEN b[n] ELSE a[n]]

\* params.update(p_job)
Update(params, p_job) == DictUpdate(params, DictOf(p_job))

\* submit_job(script, output, name, parameters): the job handed to the queue
SubmitJob(name, parameters) == [name |-> name, parameters |-> parameters]

\* the loop of submit_jobs over the combinations from the i-th on
RECURSIVE SubmitAll(_, _, _, _)
SubmitAll(params, combos, i, jobs) ==
  IF i > Len(combos) THEN [exc |-> "", jobs |-> jobs]
  ELSE IF GetJobName("job", combos[i]).exc # ""
       THEN [exc |-> GetJobName("job", combos[i]).exc, jobs |-> jobs]
  ELSE SubmitAll(Update(params, combos[i]), combos, i + 1,
                 Append(jobs, SubmitJob(GetJobName("job", combos[i]).name,
                                        Update(params, combos[i]))))

\* submit_jobs(script, output, "job", parameters): the exception and the jobs
\* submitted, in their order
SubmitJobs(parameters) ==
  SubmitAll(DictOf(Detect(parameters, FALSE)), ItertoolsProduct(Detect(parameters, TRUE)),
            1, <<>>)

\* dicts `parameters` of submit_jobs, as their entries in order
JobNames == <<"a", "b", "c">>
JobValues ==
  {Scalar(PyInt(1)), Scalar(PyStr("s")), Iterable(<<>>),
   Iterable(<<PyInt(1), PyInt(2)>>), Iterable(<<PyFloat(1), PyInt(2), PyInt(3)>>),
   Iterable(<<PyStr("x"), PyStr("y")>>)}
JobParameters ==
  UNION {{[i \in 1..n |-> [name |-> JobNames[i], value |-> v[i]]] :
            v \in [1..n -> JobValues]} : n \in 0..Len(JobNames)}
SubmitArgs == [parameters : JobParameters]

(* ModelBase.from_command_line *)

\* the parameters a model class declares: the default of each name, and the
\* names that are hidden or deprecated
Declared == [defaults |-> [n \in {"a", "b", "h"} |->
                             IF n = "a" THEN PyInt(1) ELSE PyStr("d")],
             hidden |-> {"h"}]

\* vars(parser.parse_args(args)): every parameter the parser knows has the
\* value its flag gave or else its default; flags maps the names given on the
\* command line to the values argparse made of them
ParseArgs(decl, flags, output, json_arg) ==
  [parameters |-> [n \in DOMAIN decl.defaults \ decl.hidden |->
                     IF n \in DOMAIN flags THEN flags[n] ELSE decl.defaults[n]],
   output |-> output,
   json |-> json_arg]

\* the value json.loads makes of a JSON token
JsonValue(token) ==
  IF token = "3" THEN PyInt(3)
  ELSE IF token = "null" THEN PyNone
  ELSE PyStr("j")

\* the --json argument: absent (None), or the text of a JSON object given by
\* its entries
NoJson == [given |-> FALSE, entries |-> <<>>]
JsonText(entries) == [given |-> TRUE, entries |-> entries]

\* json.loads(parameters_json) of the text of an object
LoadsObject(entries) ==
  DictOf([i \in DOMAIN entries |->
            [name |-> entries[i].name, value |-> JsonValue(entries[i].token)]])

\* faulty variant: the values of the flags win over those of the JSON text
UpdateUnderJson(parameters, json_arg) ==
  IF json_arg.given THEN DictUpdate(LoadsObject(json_arg.entries), parameters)
  ELSE parameters

\* if parameters_json: parameters.update(json.loads(parameters_json))
UpdateFromJson(parameters, json_arg) ==
  IF json_arg.given THEN DictUpdate(parameters, LoadsObject(json_arg.entries))
  ELSE parameters

\* from_command_line after the parse with namespace ns: the arguments of the
\* call cls(parameters, output=output)
FromParsed(ns) ==
  [parameters |-> UpdateFromJson(ns.parameters, ns.json), output |-> ns.output]

\* from_command_line(args) of a class with the parameters decl
FromCommandLine(decl, flags, output, json_arg) ==
  FromParsed(ParseArgs(decl, flags, output, json_arg))

\* command lines: flags given, the output path, the --json argument
FlagValues == [n \in {"a", "b"} |-> IF n = "a" THEN PyInt(2) ELSE PyStr("f")]
Flags == {[n \in S |-> FlagValues[n]] : S \in SUBSET DOMAIN FlagValues}
JsonTokens == {"3", "\"j\"", "null"}
JsonEntries ==
  {<<>>} \cup {<<[name |-> n, token |-> t]>> : n \in {"a", "b", "h"}, t \in JsonTokens}
    \cup {<<[name |-> "a", token |-> t], [name |-> "b", token |-> u]>> :
            t \in JsonTokens, u \in JsonTokens}
CommandLines ==
  [flags : Flags, output : {"None", "out.hdf"},
   json : {NoJson} \cup {JsonText(e) : e \in JsonEntries}]

Pending(fn, args) == {[fn |-> fn, arg |-> a, out |-> <<>>, done |-> FALSE] : a \in args}

InitCalls ==
  /\ mode = [read |-> TRUE, insert |-> TRUE, overwrite |-> TRUE, set_attrs |-> TRUE,
             dynamic_append |-> TRUE]
  /\ data = EmptyMap
  /\ last = [op |-> "init", loc |-> <<>>, arg |-> NoArr, attrs |-> NoneAttrs,
             exc |-> "", rb |-> FALSE, rk |-> {}, rv |-> Blank, ra |-> NoArr,
             rattrs |-> EmptyAttrs]
  /\ hist = NoHist
  /\ touched = FALSE
  /\ nops = 0
  /\ step = NoStep
  /\ held = NoneAttrs
  /\ call \in Pending("decode_class", DecodeArgs)
                \cup Pending("encode_class", EncodeArgs)
                \cup Pending("result_check_load_old_version", LoadArgs)
                \cup Pending("__call__", ModelCallArgs)
                \cup Pending("run_script", Scripts)
                \cup Pending("submit_jobs", SubmitArgs)
                \cup Pending("from_command_line", CommandLines)

\* the pending call returns or raises
Returns(out) ==
  /\ call' = [call EXCEPT !.out = out, !.done = TRUE]
  /\ UNCHANGED <<mode, data, last, hist, touched, nops, step, held>>

CallDecodeClass ==
  /\ call.fn = "decode_class"
  /\ ~call.done
  /\ Returns(DecodeClass(call.arg.class_path, call.arg.guess))

CallEncodeClass ==
  /\ call.fn = "encode_class"
  /\ ~call.done
  /\ Returns(EncodeClassPath(call.arg.cls))

CallLoadOldVersion ==
  /\ call.fn = "result_check_load_old_version"
  /\ ~call.done
  /\ Returns(ResultCheckLoadOldVersion(call.arg.ext, call.arg.is_file, call.arg.loc,
                                       call.arg.file))

CallModel ==
  /\ call.fn = "__call__"
  /\ ~call.done
  /\ Returns(ModelCall(call.arg.self, call.arg.args, call.arg.kwargs))

CallRunScript ==
  /\ call.fn = "run_script"
  /\ ~call.done
  /\ Returns(RunScript(call.arg))

CallSubmitJobs ==
  /\ call.fn = "submit_jobs"
  /\ ~call.done
  /\ Returns(SubmitJobs(call.arg.parameters))

CallFromCommandLine ==
  /\ call.fn = "from_command_line"
  /\ ~call.done
  /\ Returns(FromCommandLine(Declared, call.arg.flags, call.arg.output, call.arg.json))

NextCalls ==
  \/ CallDecodeClass
  \/ CallEncodeClass
  \/ CallLoadOldVersion
  \/ CallModel
  \/ CallRunScript
  \/ CallSubmitJobs
  \/ CallFromCommandLine

SpecCalls == InitCalls /\ [][NextCalls]_vars

----------------------------------------------------------------------------
(* Vocabulary of the properties *)

\* `loc in store` returned True
IsMember(d, loc) == Contains(d, mode, loc).exc = "" /\ Contains(d, mode, loc).rb

\* the kind a node reports: its `__type__` attribute, absent for a group
KindOf(d, loc) ==
  IF "__type__" \in DOMAIN RawAttrs(d, loc) THEN RawAttrs(d, loc)["__type__"].s
  ELSE "group"

ItemKinds == {"array", "dynamic_array", "object"}

\* loc is a node (a dict of the store) that is a member
IsNode(d, loc) == loc # <<>> /\ IsDict(d, loc) /\ IsMember(d, loc)

\* loc holds an array: read_array(loc) finds a numpy array there
HoldsArray(d, loc) ==
  /\ IsNode(d, loc)
  /\ HasKey(d, loc, "data")
  /\ d[Append(loc, "data")].k = "ndarray"

\* loc holds a dynamic array with its declared shape and dtype
HoldsDynamicArray(d, loc) ==
  /\ IsNode(d, loc)
  /\ TypeTagIs(d, loc, "dynamic_array")
  /\ HasKey(d, loc, "shape")
  /\ HasKey(d, loc, "dtype")
  /\ HasKey(d, loc, "data")
  /\ d[Append(loc, "data")].k = "list"

DeclaredShape(d, loc) == d[Append(loc, "shape")].sh
DeclaredDType(d, loc) == d[Append(loc, "dtype")].dt

\* some proper ancestor of loc is an array, a dynamic array or an object
HasItemAncestor(d, loc) ==
  \E i \in 1..(Len(loc) - 1) :
    IsNode(d, SubSeq(loc, 1, i)) /\ KindOf(d, SubSeq(loc, 1, i)) \in ItemKinds

ReadOps == {"read_attrs", "read_array", "read_object"}
WriteOps == {"create_group", "write_array", "write_object", "create_dynamic_array"}

----------------------------------------------------------------------------
(* Properties *)

\* C1: write_array to a location that already holds an array: without the
\* overwrite capability it raises AccessError and read_array still returns the
\* old value; with overwrite it succeeds and read_array returns the new value
\* (the reads are those of a mode that can read).
C1_WriteToExistingArray ==
  [][(last'.op = "write_array" /\ mode.read /\ HoldsArray(data, last'.loc))
     => IF mode.overwrite
        THEN /\ last'.exc = ""
             /\ ReadArray(data', mode, last'.loc, NoIndex).ra = last'.arg
        ELSE /\ last'.exc = "AccessError"
             /\ ReadArray(data', mode, last'.loc, NoIndex).ra
                  = ReadArray(data, mode, last'.loc, NoIndex).ra]_vars

\* C2: the kind of a node never changes: a node that is a member before and
\* after an operation other than clear reports the same kind.
C2_KindImmutable ==
  [][last'.op # "clear"
     => \A loc \in Locs :
          (IsNode(data, loc) /\ IsNode(data', loc))
          => KindOf(data', loc) = KindOf(data, loc)]_vars

\* C3: create_group, write_array, write_object and create_dynamic_array at a
\* location below an array, a dynamic array or an object raise an error and
\* store nothing.
C3_NoWriteBelowItem ==
  [][(last'.op \in WriteOps /\ HasItemAncestor(data, last'.loc))
     => (last'.exc # "" /\ data' = data)]_vars

\* C4: a dynamic array created at loc and extended since holds exactly the
\* appended entries in append order: read_array(loc) has as many entries as
\* were appended, and read_array(loc, index=i) is the (i+1)-th of them.
C4_EntriesInAppendOrder ==
  \A loc \in DOMAIN hist :
    /\ ReadArray(data, [mode EXCEPT !.read = TRUE], loc, NoIndex).exc = ""
    /\ ReadArray(data, [mode EXCEPT !.read = TRUE], loc, NoIndex).ra.sh[1]
         = Len(hist[loc])
    /\ \A i \in 0..(Len(hist[loc]) - 1) :
         /\ ReadArray(data, [mode EXCEPT !.read = TRUE], loc, i).exc = ""
         /\ ReadArray(data, [mode EXCEPT !.read = TRUE], loc, i).ra = hist[loc][i + 1]

\* C4 happens: two different entries were appended to a dynamic array and an
\* entry of it was read back.
C4_Witness ==
  \E loc \in DOMAIN hist :
    /\ Len(hist[loc]) = MaxLen
    /\ hist[loc][1] # hist[loc][2]
    /\ last.op = "read_array" /\ last.loc = loc /\ last.exc = ""
    /\ last.ra = hist[loc][2]

\* C5: extend_dynamic_array with an entry whose shape or dtype differs from
\* the declared one raises the validation error (TypeError) and leaves the
\* dynamic array as it was, in a mode that can append.
C5_MismatchRejected ==
  [][(/\ last'.op = "extend_dynamic_array"
      /\ mode.dynamic_append
      /\ HoldsDynamicArray(data, last'.loc)
      /\ \/ last'.arg.sh # DeclaredShape(data, last'.loc)
         \/ last'.arg.dt # DeclaredDType(data, last'.loc))
     => (last'.exc = "TypeError" /\ data' = data)]_vars

\* C6: without the dynamic_append capability extend_dynamic_array raises
\* AccessError for every location and entry, and the store does not change.
C6_AppendNeedsCapability ==
  [][(last'.op = "extend_dynamic_array" /\ ~mode.dynamic_append)
     => (last'.exc = "AccessError" /\ data' = data)]_vars

\* C6 happens: an entry that conforms was refused at a dynamic array.
C6_Witness ==
  /\ last.op = "extend_dynamic_array"
  /\ ~mode.dynamic_append
  /\ last.exc = "AccessError"
  /\ HoldsDynamicArray(data, last.loc)
  /\ last.arg.sh = DeclaredShape(data, last.loc)
  /\ last.arg.dt = DeclaredDType(data, last.loc)

\* C7: without the read capability read_attrs, read_array and read_object
\* raise AccessError for every location and return nothing.
C7_ReadNeedsCapability ==
  (last.op \in ReadOps /\ ~mode.read)
  => /\ last.exc = "AccessError"
     /\ last.ra = NoArr
     /\ last.rv = Blank
     /\ last.rattrs = EmptyAttrs

\* C7 happens: read_array was refused at a location that holds an array.
C7_Witness ==
  /\ last.op = "read_array"
  /\ ~mode.read
  /\ last.exc = "AccessError"
  /\ HoldsArray(data, last.loc)

\* C8: without the set_attrs capability write_attrs raises AccessError and
\* the store does not change, for every attrs argument.
C8_WriteAttrsNeedsCapability ==
  [][(last'.op = "write_attrs" /\ ~mode.set_attrs)
     => (last'.exc = "AccessError" /\ data' = data)]_vars

\* C8 happens: write_attrs(loc, None) was refused at an existing node.
C8_Witness ==
  /\ last.op = "write_attrs"
  /\ ~mode.set_attrs
  /\ last.attrs = NoneAttrs
  /\ last.exc = "AccessError"
  /\ IsNode(data, last.loc)

\* C9: the membership test never raises; it is True for the root, and for
\* another location it is True exactly if the parent exists and has the final
\* segment among its children.
C9_Membership ==
  last.op = "contains"
  => /\ last.exc = ""
     /\ last.rb = (\/ last.loc = <<>>
                   \/ /\ IsDict(data, Front(last.loc))
                      /\ HasKey(data, Front(last.loc), Last(last.loc))
                      /\ ~StartsWithDunder(Last(last.loc)))

\* C10: after a successful create_group, write_array, write_object or
\* create_dynamic_array at loc, loc and all its prefixes are members; as long
\* as no operation that creates nodes was called, only the root is a member.
C10_MembersAreCreated ==
  /\ (last.op \in WriteOps /\ last.exc = "")
     => \A p \in Prefixes(last.loc) : IsMember(data, p)
  /\ ~touched => \A loc \in Locs \ {<<>>} : ~IsMember(data, loc)

\* `loc in store` returned False
IsAbsent(d, loc) == Contains(d, mode, loc).exc = "" /\ ~Contains(d, mode, loc).rb

\* C11: create_group(loc) raises AccessError and leaves the store unchanged
\* if loc exists and overwrite is off, and if loc is absent and insert is off;
\* in the other cases it raises no AccessError (the mode having set_attrs for
\* the attributes it writes).
C11_CreateGroupAccess ==
  [][last'.op = "create_group"
     => /\ (IsMember(data, last'.loc) /\ ~mode.overwrite)
             => (last'.exc = "AccessError" /\ data' = data)
        /\ (IsAbsent(data, last'.loc) /\ ~mode.insert)
             => (last'.exc = "AccessError" /\ data' = data)
        /\ (/\ mode.set_attrs
            /\ \/ IsMember(data, last'.loc) /\ mode.overwrite
               \/ IsAbsent(data, last'.loc) /\ mode.insert)
             => last'.exc # "AccessError"]_vars

\* C12: ensure_group(loc) changes nothing and raises nothing if loc is in the
\* store; it raises AccessError if loc is absent and insert is off; and a
\* second call right after it leaves the store as the first call left it.
C12_EnsureGroupIdempotent ==
  [][last'.op = "ensure_group"
     => /\ IsMember(data, last'.loc) => (last'.exc = "" /\ data' = data)
        /\ (IsAbsent(data, last'.loc) /\ ~mode.insert) => last'.exc = "AccessError"
        /\ EnsureGroup(data', mode, last'.loc).d = data']_vars

\* C12 happens: ensure_group returned at a location that was in the store
\* before the call, in a mode without insert.
C12_Witness ==
  /\ last.op = "ensure_group"
  /\ last.exc = ""
  /\ last.loc # <<>>
  /\ ~mode.insert
  /\ IsMember(data, last.loc)

\* the payload of kind `kind` is present at loc
HasPayload(d, loc, kind) ==
  /\ HasKey(d, loc, "data")
  /\ kind = "dynamic_array" => (HasKey(d, loc, "shape") /\ HasKey(d, loc, "dtype"))

\* C13: in every state of a writing operation, the intermediate ones
\* included, a location whose kind tag says array, object or dynamic_array
\* holds the payload of that kind: the payload is stored before the tag.
C13_PayloadBeforeTag ==
  \A loc \in Locs :
    (IsDict(data, loc) /\ KindOf(data, loc) \in ItemKinds)
    => HasPayload(data, loc, KindOf(data, loc))

\* C13 happens: an operation is between its two steps, the payload stored and
\* the kind tag not yet written.
C13_Witness ==
  /\ step.phases = <<"attrs">>
  /\ step.op = "create_dynamic_array"
  /\ HasPayload(data, step.loc, "dynamic_array")
  /\ KindOf(data, step.loc) = "group"

\* the kind of the payload stored under "data": a numpy array, a list of
\* entries or a copied object
PayloadKind(v) ==
  IF v.k = "ndarray" THEN "array"
  ELSE IF v.k = "list" THEN "dynamic_array"
  ELSE IF v.k = "obj" THEN "object"
  ELSE "group"

\* C14: after every operation, returned or raised, every node that holds the
\* payload of an array, a dynamic array or an object carries the kind tag
\* `__type__` naming that kind.
C14_PayloadIsTagged ==
  \A loc \in Locs :
    (loc # <<>> /\ IsDict(data, loc) /\ HasKey(data, loc, "data")
     /\ PayloadKind(data[Append(loc, "data")]) \in ItemKinds)
    => KindOf(data, loc) = PayloadKind(data[Append(loc, "data")])

\* C15: create_dynamic_array(loc) raises an error and leaves the store
\* unchanged if loc is in the store, in every mode; if loc is absent and
\* insert is off it raises AccessError.
C15_CreateDynamicArrayOnce ==
  [][last'.op = "create_dynamic_array"
     => /\ IsMember(data, last'.loc) => (last'.exc # "" /\ data' = data)
        /\ (IsAbsent(data, last'.loc) /\ ~mode.insert) => last'.exc = "AccessError"]_vars

\* C15 happens: create_dynamic_array was refused at an existing node in a
\* mode that has every write capability.
C15_Witness ==
  /\ last.op = "create_dynamic_array"
  /\ mode.insert /\ mode.overwrite /\ mode.set_attrs
  /\ last.exc = "RuntimeError"
  /\ IsNode(data, last.loc)

\* the mode of a handle that can also read
Reading(m) == [m EXCEPT !.read = TRUE]

\* C16: with the read capability, read_object(loc) at a node whose kind is
\* group, array or dynamic array raises the structural error (RuntimeError)
\* and returns nothing; and after a successful write_object(loc, o),
\* read_object(loc) returns a value equal to o.
C16_ReadObjectChecksKind ==
  [][/\ (/\ last'.op = "read_object"
         /\ mode.read
         /\ IsNode(data, last'.loc)
         /\ KindOf(data, last'.loc) # "object")
        => (last'.exc = "RuntimeError" /\ last'.rv = Blank)
     /\ (last'.op = "write_object" /\ last'.exc = "")
        => /\ ReadObject(data', Reading(mode), last'.loc).exc = ""
           /\ ReadObject(data', Reading(mode), last'.loc).rv.k = "obj"
           /\ ReadObject(data', Reading(mode), last'.loc).rv.el = last'.arg.el]_vars

ItemWriteOps == {"write_array", "write_object", "create_dynamic_array"}

\* C17: after every operation the root is a member of the store, is a group
\* and holds no payload; write_array, write_object and create_dynamic_array
\* at the root raise an error that is no AccessError and leave the store
\* unchanged.
C17_RootIsGroup ==
  [][/\ IsMember(data', <<>>)
     /\ IsGroup(data', mode, <<>>).exc = ""
     /\ IsGroup(data', mode, <<>>).rb
     /\ ~HasKey(data', <<>>, "data")
     /\ (last'.op \in ItemWriteOps /\ last'.loc = <<>>)
        => (last'.exc \notin {"", "AccessError"} /\ data' = data)]_vars

\* the reserved attributes stored at loc
ReservedAttrs(d, loc) ==
  [k \in {n \in DOMAIN RawAttrs(d, loc) : StartsWithDunder(n)} |-> RawAttrs(d, loc)[k]]

\* the kind tag the storage layer gives the item an operation creates
LayerTypeOK(d, op, loc) ==
  IF op = "create_group" THEN "__type__" \notin DOMAIN RawAttrs(d, loc)
  ELSE TypeTagIs(d, loc, ItemTypeOf(op))

\* the class tag is the one of a class handed in as `cls`
LayerClassOK(d, loc) ==
  "__class__" \in DOMAIN RawAttrs(d, loc)
  => \E x \in ReservedItemArgs :
       x.cls # NoCls /\ RawAttrs(d, loc)["__class__"] = StrV(EncodeClass(x.cls))

\* C18: reserved attribute keys are not writable by the caller: write_attrs
\* leaves the reserved attributes of the node as they were, and after a
\* successful create_group or write_object whose attrs hold reserved keys the
\* kind tag and the class tag are those of the storage layer.
C18_ReservedKeysProtected ==
  [][/\ last'.op = "write_attrs"
        => ReservedAttrs(data', last'.loc) = ReservedAttrs(data, last'.loc)
     /\ (last'.op \in {"create_group", "write_object"} /\ last'.exc = "")
        => /\ LayerTypeOK(data', last'.op, last'.loc)
           /\ LayerClassOK(data', last'.loc)]_vars

\* C19: read_attrs never returns a key beginning with `__`.
C19_NoReservedKeysRead ==
  last.op = "read_attrs" => \A k \in DOMAIN last.rattrs : ~StartsWithDunder(k)

\* C19 happens: read_attrs returned the user attributes of a node that has a
\* kind tag and a class tag.
C19_Witness ==
  /\ last.op = "read_attrs"
  /\ last.exc = ""
  /\ {"__type__", "__class__"} \subseteq DOMAIN RawAttrs(data, last.loc)
  /\ "x" \in DOMAIN last.rattrs

\* mapping A overridden by mapping B
Override(A, B) ==
  [k \in DOMAIN A \cup DOMAIN B |-> IF k \in DOMAIN B THEN B[k] ELSE A[k]]

\* C20: user attributes merge per key and round-trip: after a successful
\* write_attrs(loc, B) with user keys only, read_attrs(loc) returns what it
\* returned before overridden by B, so after write_attrs(loc, A) and then
\* write_attrs(loc, B) it returns A overridden by B, with the values written.
C20_AttrsMergePerKey ==
  [][(/\ last'.op = "write_attrs"
      /\ last'.exc = ""
      /\ \A k \in DOMAIN last'.attrs.kv : ~StartsWithDunder(k)
      /\ ReadAttrs(data, Reading(mode), last'.loc).exc = "")
     => /\ ReadAttrs(data', Reading(mode), last'.loc).exc = ""
        /\ ReadAttrs(data', Reading(mode), last'.loc).rattrs
             = Override(ReadAttrs(data, Reading(mode), last'.loc).rattrs,
                        last'.attrs.kv)]_vars

\* C20 happens: write_attrs(loc, A) was followed by write_attrs(loc, B), and
\* read_attrs(loc) returns A overridden by B.
C20_Witness ==
  /\ last.op = "write_attrs"
  /\ last.exc = ""
  /\ last.attrs = DictAttrs(AttrsB)
  /\ ReadAttrs(data, Reading(mode), last.loc).exc = ""
  /\ ReadAttrs(data, Reading(mode), last.loc).rattrs = Override(AttrsA, AttrsB)

\* C21: after a successful write_array(loc, a), read_array(loc) with the
\* default copy returns an array of the same shape, the same dtype and the
\* same elements as a, for arrays of 0, 1 and 2 dimensions.
C21_ArrayRoundTrip ==
  [][(last'.op = "write_array" /\ last'.exc = "")
       => ReadArray(data', Reading(mode), last'.loc, NoIndex) = OkArr(data', last'.arg)]_vars

\* a read_array has returned the 2-dimensional array that was written
C21_Witness ==
  /\ last.op = "read_array"
  /\ last.exc = ""
  /\ last.ra = Matrix1

\* the capability test that the operation op makes at loc fails in mode m
Denied(m, op, d, loc) ==
  IF op \in ReadOps THEN ~m.read
  ELSE IF op = "write_attrs" THEN ~m.set_attrs
  ELSE IF op = "extend_dynamic_array" THEN ~m.dynamic_append
  ELSE IF op \notin WriteOps \cup {"ensure_group"} THEN FALSE
  ELSE IF op \in ItemWriteOps /\ loc = <<>> THEN FALSE
  ELSE IF Contains(d, m, loc).exc # "" THEN FALSE
  ELSE IF Contains(d, m, loc).rb THEN op # "ensure_group" /\ ~m.overwrite
  ELSE ~m.insert

\* C22: an operation that the mode denies raises AccessError, and an
\* operation raises AccessError only when the mode lacks a capability it
\* uses (for the creating operations and ensure_group also set_attrs, for
\* the attributes they write): a request that the mode permits and that is rejected for
\* its structure raises an error that is no AccessError.
C22_ErrorKinds ==
  [][/\ Denied(mode, last'.op, data, last'.loc) => last'.exc = "AccessError"
     /\ last'.exc = "AccessError"
          => \/ Denied(mode, last'.op, data, last'.loc)
             \/ (last'.op \in WriteOps \cup {"ensure_group"} /\ ~mode.set_attrs)]_vars

\* read_object was permitted and rejected a group with the structural error
C22_Witness ==
  /\ last.op = "read_object"
  /\ last.exc = "RuntimeError"
  /\ mode.read
  /\ ~mode.insert
  /\ last.loc = <<>>

\* what read_array and read_object return at the locations of the runs
ReadBack(d, m) ==
  [loc \in CopyLocs |->
     [arr |-> [index \in Indexes |-> ReadArray(d, Reading(m), loc, index).ra],
      obj |-> ReadObject(d, Reading(m), loc).rv]]

\* C23: when the caller changes the array or object it wrote in place, what
\* read_array and read_object return afterwards is what they returned before
\* the change: the store holds a duplicate of the payload.
C23_StoreKeepsDuplicate ==
  [][last'.op = "mutate" => ReadBack(data', mode) = ReadBack(data, mode)]_vars

\* the caller changed a written array in place and the store still holds the
\* elements that were written
C23_Witness ==
  /\ last.op = "mutate"
  /\ HoldsArray(data, last.loc)
  /\ data[Append(last.loc, "data")].el # last.arg.el
  /\ data[Append(last.loc, "data")].sh = last.arg.sh

\* importing the qualified path yields the class
ImportYields(class_path) ==
  IF Len(class_path) < 2 THEN FALSE
  ELSE IF Front(class_path) \notin Importable THEN FALSE
  ELSE Last(class_path) \in ModuleNames(Front(class_path))

\* the name of the guess is the final segment of the path
GuessMatches(class_path, guess) ==
  IF guess = NoneCls THEN FALSE ELSE Last(guess.qualname) = Last(class_path)

\* C24: decode_class(path, guess) raises only when all three sources fail:
\* the import of the qualified path does not yield the class, the guess is
\* absent or named otherwise, and the final segment of the path is no known
\* name of the utility module.
C24_RaisesOnlyWhenAllFail ==
  (call.fn = "decode_class" /\ call.done /\ call.out.exc # "")
    => /\ ~ImportYields(call.arg.class_path)
       /\ ~GuessMatches(call.arg.class_path, call.arg.guess)
       /\ Last(call.arg.class_path) \notin Globals

\* an importable class defined at the top level of its module
ModuleLevel(cls) ==
  IF Len(cls.qualname) # 1 THEN FALSE
  ELSE IF cls.module \notin Importable THEN FALSE
  ELSE cls.qualname[1] \in ModuleNames(cls.module)

\* C25: encode_class(cls) is the module path followed by the qualified name
\* and encode_class(None) is "None"; decoding the tag of an importable
\* module-level class gives the class back; decode_class(None) and
\* decode_class("None") return None without error.
C25_ClassTagRoundTrip ==
  /\ (call.fn = "encode_class" /\ call.done)
       => /\ call.arg.cls = NoneCls => call.out = NonePath
          /\ call.arg.cls # NoneCls
               => call.out = call.arg.cls.module \o call.arg.cls.qualname
          /\ ModuleLevel(call.arg.cls)
               => DecodeClass(call.out, NoneCls) = ClsResult("", call.arg.cls)
  /\ (call.fn = "decode_class" /\ call.done
      /\ call.arg.class_path \in {NoPath, NonePath})
       => call.out = ClsResult("", NoneCls)

\* the tag of a module-level class of pkg.mod has been computed
C25_Witness ==
  /\ call.fn = "encode_class"
  /\ call.done
  /\ call.arg.cls = MkCls(<<"pkg", "mod">>, <<"Cls">>)
  /\ call.out = <<"pkg", "mod", "Cls">>

\* the version result_check_load_old_version finds for the arguments a
VersionOf(a) == FoundVersion(GuessFormat(a.ext), a.file, LabelOf(a.loc))

\* C26: result_check_load_old_version dispatches on the version found in the
\* file: a missing version and version 0 go to the version-0 loader, version
\* 1 to the version-1 loader, any other integer returns None without
\* loading, and every non-integer version raises RuntimeError.
C26_VersionDispatch ==
  (/\ call.fn = "result_check_load_old_version"
   /\ call.done
   /\ (call.arg.is_file \/ GuessFormat(call.arg.ext) # "zarr"))
    => IF VersionOf(call.arg).exc # "" THEN call.out.exc = "RuntimeError"
       ELSE IF VersionOf(call.arg).v \in {PyNone, PyInt(0)}
       THEN call.out = LoadResult("", "v0", "")
       ELSE IF VersionOf(call.arg).v = PyInt(1)
       THEN call.out.exc = "" /\ call.out.loader = "v1"
       ELSE IF VersionOf(call.arg).v.t = "int" THEN call.out = LoadResult("", "", "")
       ELSE call.out = LoadResult("RuntimeError", "", "")

\* the value the i-th parameter resolves to
Resolved(a, i) ==
  IF Len(a.args) >= i THEN a.args[i]
  ELSE IF a.self.names[i] \in DOMAIN a.kwargs THEN a.kwargs[a.self.names[i]]
  ELSE a.self.parameters[a.self.names[i]]

\* C27: a call of a model made from a function resolves each parameter to
\* the positional argument at its place if given, else to the keyword
\* argument of its name if given, else to the stored value; when a parameter
\* resolves to NoValue the call raises TypeError without calling the
\* function, otherwise the function is called once with the resolved values.
C27_ModelCallResolves ==
  (call.fn = "__call__" /\ call.done)
    => IF \E i \in DOMAIN call.arg.self.names : Resolved(call.arg, i) = NoValue
       THEN call.out.exc = "TypeError" /\ call.out.calls = 0
       ELSE /\ call.out.exc = ""
            /\ call.out.calls = 1
            /\ DOMAIN call.out.with = {call.arg.self.names[i] :
                                         i \in DOMAIN call.arg.self.names}
            /\ \A i \in DOMAIN call.arg.self.names :
                 call.out.with[call.arg.self.names[i]] = Resolved(call.arg, i)

\* the function was called with a positional value that went before the
\* keyword of the same name, and a keyword value
C27_Witness ==
  /\ call.fn = "__call__"
  /\ call.done
  /\ call.arg.args = <<"arg1">>
  /\ DOMAIN call.arg.kwargs = {"a", "b"}
  /\ call.out.calls = 1
  /\ call.out.with["a"] = "arg1"
  /\ call.out.with["b"] = "kw_b"

\* C28: run_script runs the only model instance; with several instances it
\* raises RuntimeError; without instances it runs the only model class and
\* raises RuntimeError with several; without instances and classes it runs
\* the function main if there is one, else the only function, and raises
\* RuntimeError with several functions and no main, or with nothing to run.
C28_RunScriptPrecedence ==
  (call.fn = "run_script" /\ call.done)
    => IF Cardinality(call.arg.instances) = 1
       THEN call.out.exc = "" /\ call.out.kind = "instance"
            /\ call.out.name \in call.arg.instances
       ELSE IF Cardinality(call.arg.instances) > 1 THEN call.out.exc = "RuntimeError"
       ELSE IF Cardinality(call.arg.classes) = 1
       THEN call.out.exc = "" /\ call.out.kind = "class"
            /\ call.out.name \in call.arg.classes
       ELSE IF Cardinality(call.arg.classes) > 1 THEN call.out.exc = "RuntimeError"
       ELSE IF "main" \in call.arg.funcs
       THEN call.out = RunResult("", "function", "main")
       ELSE IF Cardinality(call.arg.funcs) = 1
       THEN call.out.exc = "" /\ call.out.kind = "function"
            /\ call.out.name \in call.arg.funcs
       ELSE call.out.exc = "RuntimeError"

\* a script with several functions, one of them main, and nothing else ran
\* main
C28_Witness ==
  /\ call.fn = "run_script"
  /\ call.done
  /\ call.arg.instances = {}
  /\ call.arg.classes = {}
  /\ call.arg.funcs = {"main", "f", "g"}
  /\ call.out = RunResult("", "function", "main")

\* the operations that only read
QueryOps == {"contains", "keys", "is_group"} \cup ReadOps

\* C29: the membership test, keys, is_group, read_attrs, read_array and
\* read_object leave the store as it was, whether they return or raise, at
\* every location and in every mode.
C29_ReadsChangeNothing ==
  [][last'.op \in QueryOps => data' = data]_vars

\* C30: an operation that raises leaves the store exactly as it was before
\* the call, in every mode, those with insert or overwrite and without
\* set_attrs included.
C30_RaiseChangesNothing ==
  [][last'.exc # "" => data' = data]_vars

\* what the store reports about the node at loc: kind, attributes, payload
NodeView(d, loc) ==
  [kind |-> KindOf(d, loc), attrs |-> RawAttrs(d, loc),
   payload |-> IF HasKey(d, loc, "data") THEN d[Append(loc, "data")] ELSE Blank]

\* C31: a successful write_array or write_object at loc changes only loc and
\* ancestors of loc that were missing: every other location that was a
\* member before the call is a member afterwards with the same kind, payload
\* and attributes, also when loc held a group with children.
C31_WriteChangesOnlyTarget ==
  [][(last'.op \in {"write_array", "write_object"} /\ last'.exc = "")
       => \A loc \in Locs \ {<<>>, last'.loc} :
            IsMember(data, loc)
              => IsMember(data', loc) /\ NodeView(data', loc) = NodeView(data, loc)]_vars

\* C32: a node that is an array, a dynamic array or an object has no
\* members: keys(loc) lists nothing and `loc + [x] in store` is false for
\* every name x, so no payload field is reported as a child.
C32_ItemsHaveNoMembers ==
  \A loc \in Locs :
    (IsNode(data, loc) /\ KindOf(data, loc) \in ItemKinds)
      => /\ Keys(data, mode, loc).rk = {}
         /\ \A x \in Names \cup {"shape", "dtype"} : ~IsMember(data, Append(loc, x))

\* C33: create_group, write_array, write_object and create_dynamic_array
\* leave the attrs mapping of the caller as it was; hence every successful
\* write_object, also one that is passed a mapping used in an earlier call,
\* leaves its location tagged as an object, and read_object succeeds there.
C33_CallerAttrsUntouched ==
  [][/\ last'.op \in WriteOps => held' = held
     /\ (last'.op = "write_object" /\ last'.exc = "")
          => ReadObject(data', Reading(mode), last'.loc).exc = ""]_vars

\* C34: the value read_object(loc) returns shares no mutable state with the
\* store: when the caller changes the returned value in place, a later
\* read_object(loc) returns what it returned before the change.
C34_ReturnedObjectIsDetached ==
  [][last'.op = "mutate_returned"
       => ReadObject(data', Reading(mode), last'.loc).rv
            = ReadObject(data, Reading(mode), last'.loc).rv]_vars

\* C35: every primitive of the in-memory backend (_create_group, _write_attr,
\* _write_array, _create_dynamic_array, _extend_dynamic_array, _write_object)
\* has the same outcome and the same effect on a given tree for two handles
\* that differ only in their access mode.
C35_BackendIgnoresMode ==
  \A m2 \in Modes : \A loc \in Locs \ {<<>>} :
    /\ BackendCreateGroup(data, mode, loc) = BackendCreateGroup(data, m2, loc)
    /\ BackendWriteAttr(data, mode, loc, "x", EncodeAttr("v1"))
         = BackendWriteAttr(data, m2, loc, "x", EncodeAttr("v1"))
    /\ BackendWriteArray(data, mode, loc, Scalar1) = BackendWriteArray(data, m2, loc, Scalar1)
    /\ BackendCreateDynamicArray(data, mode, loc, <<>>, Int64, FALSE)
         = BackendCreateDynamicArray(data, m2, loc, <<>>, Int64, FALSE)
    /\ BackendExtendDynamicArray(data, mode, loc, Scalar1)
         = BackendExtendDynamicArray(data, m2, loc, Scalar1)
    /\ BackendWriteObject(data, mode, loc, 1) = BackendWriteObject(data, m2, loc, 1)

\* C36: with the dynamic_append capability, extend_dynamic_array(loc, arr) on
\* a node that exists and is a group, a fixed array or an object raises an
\* error that is no AccessError, and the store (the node's payload and
\* attributes included) is left as it was.
C36_ExtendWrongKindRaises ==
  [][(/\ last'.op = "extend_dynamic_array"
      /\ mode.dynamic_append
      /\ IsNode(data, last'.loc)
      /\ KindOf(data, last'.loc) \in {"group", "array", "object"})
       => /\ last'.exc \notin {"", "AccessError"}
          /\ data' = data]_vars

\* extend_dynamic_array was refused on a fixed array or an object, whose
\* payload is still there
C36_Witness ==
  /\ last.op = "extend_dynamic_array"
  /\ mode.dynamic_append
  /\ last.exc = "RuntimeError"
  /\ IsNode(data, last.loc)
  /\ KindOf(data, last.loc) \in {"array", "object"}
  /\ HasKey(data, last.loc, "data")

\* the names of an attrs argument (None has none)
NamesOf(attrs) == IF attrs.none THEN {} ELSE DOMAIN attrs.kv

\* the places of the store create_group(loc, attrs, cls) may set on a group
\* that exists: the attributes named in attrs and the class tag
SetByCreateGroup(loc, attrs) ==
  {AttrsPath(loc)}
    \cup {Append(AttrsPath(loc), n) : n \in NamesOf(attrs) \cup {"__class__"}}

\* C37: create_group(loc, attrs, cls) on a group that exists, in a mode with
\* overwrite: every child of the group and every attribute not named in attrs
\* is kept, the only other attribute that may be set is the class tag, nothing
\* else in the store changes, and when the call succeeds the attributes named
\* in attrs have the given values.
C37_CreateGroupKeepsGroup ==
  [][(/\ last'.op = "create_group"
      /\ mode.overwrite
      /\ IsMember(data, last'.loc)
      /\ IsDict(data, last'.loc)
      /\ KindOf(data, last'.loc) = "group")
       => /\ \A p \in (DOMAIN data \cup DOMAIN data') \ SetByCreateGroup(last'.loc, last'.attrs) :
               p \in DOMAIN data /\ p \in DOMAIN data' /\ data'[p] = data[p]
          /\ last'.exc = ""
               => \A n \in NamesOf(last'.attrs) :
                    data'[Append(AttrsPath(last'.loc), n)] = AttrValue(n, last'.attrs.kv[n])
          /\ IsDict(data', AttrsPath(last'.loc)) \/ data' = data
          /\ ("__class__" \notin NamesOf(last'.attrs) /\ data' # data
                /\ HasKey(data', AttrsPath(last'.loc), "__class__"))
               => \/ HasKey(data, AttrsPath(last'.loc), "__class__")
                     /\ data'[Append(AttrsPath(last'.loc), "__class__")]
                          = data[Append(AttrsPath(last'.loc), "__class__")]
                  \/ data'[Append(AttrsPath(last'.loc), "__class__")] = StrV("pkg.Cls")]_vars

\* create_group with attrs {x} and a class succeeded on the group a, which
\* still has its child and its attribute y
C37_Witness ==
  /\ last.op = "create_group"
  /\ last.exc = ""
  /\ mode.overwrite
  /\ last.loc = <<"a">>
  /\ last.attrs = DictAttrs(AttrsB)
  /\ IsMember(data, <<"a", "a">>)
  /\ "y" \in DOMAIN RawAttrs(data, <<"a">>)
  /\ RawAttrs(data, <<"a">>)["x"] = AttrValue("x", "v2")
  /\ "__class__" \in DOMAIN RawAttrs(data, <<"a">>)

\* the number of combinations of the varying parameters: the product of the
\* lengths of their lists
RECURSIVE Combinations(_)
Combinations(p_vary) ==
  IF p_vary = <<>> THEN 1
  ELSE Len(Head(p_vary).value.items) * Combinations(Tail(p_vary))

\* the values a varying parameter takes
ValuesOf(p) == {Scalar(p.value.items[k]) : k \in DOMAIN p.value.items}

\* the dicts that give every varying parameter one of its values
Choices(p_vary) ==
  {f \in [{p_vary[i].name : i \in DOMAIN p_vary} ->
            UNION {ValuesOf(p_vary[i]) : i \in DOMAIN p_vary}] :
     \A i \in DOMAIN p_vary : f[p_vary[i].name] \in ValuesOf(p_vary[i])}

\* the names of the parameters that vary, and a dict restricted to names
VaryingNames(parameters) ==
  {parameters[i].name : i \in {k \in DOMAIN parameters : IsVarying(parameters[k].value)}}
Restricted(dict, names) == [n \in names |-> dict[n]]

\* C38: submit_jobs submits one job for every element of the Cartesian
\* product of the values of the parameters that are iterable and no string
\* (one job when there is no such parameter, none when one of them is empty);
\* each job gets every other parameter unchanged and that combination's
\* values of the varying ones.
C38_OneJobPerCombination ==
  (call.fn = "submit_jobs" /\ call.done)
    => /\ call.out.exc = ""
       /\ Len(call.out.jobs) = Combinations(Detect(call.arg.parameters, TRUE))
       /\ \A j \in DOMAIN call.out.jobs :
            /\ DOMAIN call.out.jobs[j].parameters
                 = {call.arg.parameters[i].name : i \in DOMAIN call.arg.parameters}
            /\ \A i \in DOMAIN call.arg.parameters :
                 ~IsVarying(call.arg.parameters[i].value)
                   => call.out.jobs[j].parameters[call.arg.parameters[i].name]
                        = call.arg.parameters[i].value
       /\ {Restricted(call.out.jobs[j].parameters, VaryingNames(call.arg.parameters)) :
             j \in DOMAIN call.out.jobs}
            = Choices(Detect(call.arg.parameters, TRUE))

\* the names the JSON text of a command line gives a value
NamedInJson(json_arg) ==
  IF json_arg.given THEN {json_arg.entries[i].name : i \in DOMAIN json_arg.entries}
  ELSE {}

\* C39: from_command_line hands the model every parameter named in the --json
\* argument with the value of the JSON text, whatever its flag or default
\* says, and every other parameter of the parser with the value of its flag,
\* or of its default when the flag is not given.
C39_JsonOverridesFlags ==
  (call.fn = "from_command_line" /\ call.done)
    => /\ DOMAIN call.out.parameters
            = (DOMAIN Declared.defaults \ Declared.hidden) \cup NamedInJson(call.arg.json)
       /\ \A i \in DOMAIN call.arg.json.entries :
            call.out.parameters[call.arg.json.entries[i].name]
              = JsonValue(call.arg.json.entries[i].token)
       /\ \A n \in DOMAIN call.out.parameters \ NamedInJson(call.arg.json) :
            call.out.parameters[n]
              = IF n \in DOMAIN call.arg.flags THEN call.arg.flags[n]
                ELSE Declared.defaults[n]
       /\ call.out.output = call.arg.output

\* a command line gave the flag of a and named a in its JSON text, and left b
\* to its default: the model got the JSON value of a and the default of b
C39_Witness ==
  /\ call.fn = "from_command_line"
  /\ call.done
  /\ "a" \in DOMAIN call.arg.flags
  /\ "a" \in NamedInJson(call.arg.json)
  /\ "b" \notin DOMAIN call.arg.flags \cup NamedInJson(call.arg.json)
  /\ call.out.parameters["a"] = PyInt(3)
  /\ call.out.parameters["a"] # call.arg.flags["a"]
  /\ call.out.parameters["b"] = Declared.defaults["b"]

====
